---- MODULE Spec2Model ----
(***************************************************************************)
(* Crawl coordinator of nitter_x (main.py) together with the Redis lease,  *)
(* existence cache and queue (src/storage/redis_client.py) and the tweet   *)
(* store (src/storage/postgres_client.py).                                 *)
(*                                                                         *)
(* Several coordinator processes share one Redis and one PostgreSQL.       *)
(* Time is a global discrete clock in seconds; Redis expires keys when the *)
(* clock reaches their expiry.  PostgreSQL calls may fail (the except      *)
(* branches of the client); Redis answers every command.                   *)
(*                                                                         *)
(* The classification consumer (process_worker.py) reads pending tweets    *)
(* from the same store and runs each through TweetProcessor.process_tweet  *)
(* (src/processor/tweet_processor.py).                                     *)
(*                                                                         *)
(* The endpoint registry (src/crawler/instance_discovery.py) keeps the     *)
(* ranking of the available endpoints under one Redis key; its reads and   *)
(* writes of that key may fail (get_cache and set_cache swallow the error).*)
(***************************************************************************)
EXTENDS Integers, Sequences, FiniteSets, TLC

\* ---------------------------------------------------------------- bounds
MaxTime == 3
MaxCycles == 2
MaxTweet == 3
MaxCalls == 2
MaxSummaryLen == 3

\* ------------------------------------------------- configuration values
CRAWL_INTERVAL == 1
CRAWL_USER_INTERVAL == 1
ESTIMATED_TIME_PER_USER == 1
DEDUP_EXPIRE == 3
MAX_TWEETS == 50
NumInstances == 2
WORKER_INTERVAL == 2
ITEM_DELAY == 1
BATCH_LIMIT == 2
TWEET_EXPIRATION_HOURS == 2
ENABLE_24H_EXPIRATION == TRUE
CACHE_EXPIRE_INSTANCES == 2
HTTP_RETRY_COUNT == 3
HTTP_RETRY_DELAY == 1
SUMMARY_BUDGET == 2

Procs == {"p1", "p2"}
Users == {"alice", "bob", "carol"}
TweetIds == 1..MaxTweet

NoToken == <<>>
NoId == 0
NoLock == [value |-> NoToken, expireAt |-> 0]
NoGrant == [tok |-> NoToken, exp |-> 0]
NoRel == [called |-> FALSE, tok |-> NoToken, ret |-> FALSE]
NoFetch == [first |-> 0, items |-> <<>>, instance |-> 0, contacted |-> 0]

\* the grade vocabulary of grade_tweet, highest priority first
Tiers == <<"P0", "P1", "P2", "P3", "P4", "P5", "P6">>
LowestTier == "P6"
\* process_worker.py: if grade in ["P0", "P1", "P2"]
\* variant: P3 and P4 are persisted as well
EnrichmentSetWide == {"P0", "P1", "P2", "P3", "P4"}

EnrichmentSet == {"P0", "P1", "P2"}
\* process_tweet's published_at parameter when the caller passes none
NoTime == <<>>

\* the built-in endpoints, the endpoints the third-party lists can add, and
\* the response times a probe can measure
KNOWN_INSTANCES == {"i1"}
ExternalInstances == {"i2"}
Urls == KNOWN_INSTANCES \cup ExternalInstances
ResponseTimes == {1, 2}
NoCache == [value |-> <<>>, expireAt |-> 0]
NoCall == [calls |-> 0, probes |-> 0, source_requests |-> 0,
           force_refresh |-> FALSE, read_ok |-> FALSE, returned |-> <<>>,
           probed |-> FALSE, probe |-> [u \in Urls |-> -1]]
NoResult == [grade |-> "none", summary |-> FALSE, embedding |-> FALSE,
             filter_source |-> "none", calls |-> {}, aged |-> FALSE,
             filter |-> "none", grader_failed |-> FALSE, labels |-> {}]

\* a cycle of which nothing is recorded yet
NoCycle == [skipped_at |-> -1, ttl |-> 0, due |-> 0, selected |-> <<>>,
            visited |-> <<>>, marked |-> {}, failed |-> {}, seen |-> {}]

\* what session.get can end in: a response that passes raise_for_status, the
\* exceptions Timeout and ConnectionError, an HTTPError with a 5xx or a 4xx
\* status, and any other RequestException
HttpOutcomes == {"ok", "timeout", "connection_error", "http_5xx", "http_4xx",
                 "request_exception"}
\* no call of _request_with_retry is in progress
NoRequest == [pc |-> "idle", attempt |-> 0, log |-> <<>>, sleeps |-> 0,
              wake |-> 0, response |-> "none"]

\* the characters of a summary, and the summaries an answer can carry
Chars == {"a", "b", "c"}
Summaries == UNION {[1..n -> Chars] : n \in 0..MaxSummaryLen}

\* what process_high_grade_tweet returns when it returns None
NoEnrichResult == [ok |-> FALSE, summary_cn |-> <<>>, translated_content |-> "none"]

\* answers of the enrichment call. json: the call returned and a JSON object
\* was found in the answer and parsed; summary_field: the key summary_cn is
\* missing, null or a text; keywords: the key is present; translated: the
\* translated_content is absent, equal to the content, shorter than 10
\* characters, or another text
NoEnrichResponse ==
    [json |-> FALSE, summary_field |-> "missing", summary_cn |-> <<>>,
     keywords |-> FALSE, is_chinese |-> FALSE, translated |-> "none"]

EnrichResponses ==
    {NoEnrichResponse}
    \cup {[json |-> TRUE, summary_field |-> f, summary_cn |-> <<>>,
           keywords |-> k, is_chinese |-> FALSE, translated |-> "none"] :
              f \in {"missing", "null"}, k \in BOOLEAN}
    \cup {[json |-> TRUE, summary_field |-> "text", summary_cn |-> s,
           keywords |-> k, is_chinese |-> c, translated |-> t] :
              s \in Summaries, k \in BOOLEAN, c \in BOOLEAN,
              t \in {"none", "same", "short", "other"}}

\* no call of process_high_grade_tweet has been made
NoEnrichment ==
    [called |-> FALSE, grade |-> "none", response |-> NoEnrichResponse,
     result |-> NoEnrichResult, result_summary_cn |-> [null |-> TRUE, text |-> <<>>]]

VARIABLES
    now,              \* wall clock (seconds)
    lock,             \* Redis key lock:crawler:main  [value, expireAt]
    dedup,            \* Redis keys set:dedup:<id>    id -> expiry (0 = absent)
    queue,            \* Redis list queue:process
    tweets_tbl,       \* table tweets: id -> number of rows with that tweet_id
    last_crawled_at,  \* watched_users.last_crawled_at: user -> time (-1 = NULL)
    pc,               \* position of each coordinator in main()
    running,          \* main.running of each process
    cycle_count,      \* main.cycle_count
    lock_value,       \* main.lock_value
    watched_users,    \* users of the cycle not yet visited
    username,         \* user being crawled
    latest_tweet_id,  \* crawl_user.latest_tweet_id
    tweets,           \* crawl_user.tweets
    idx,              \* position of the for loop in tweets
    wait_time,        \* remaining wait of a chunked wait
    wake,             \* end of the current time.sleep
    granted,          \* history: lease granted to the process and not released
    cyc_tok,          \* history: token obtained in the current cycle
    rel,              \* history: release_lock call of the current cycle
    fetch_ok,         \* history: outcome of the last fetch and of its UPDATE
    checked,          \* history: ids passed to is_duplicate in this crawl_user
    inserted,         \* history: ids whose insert_tweet returned a row id
    pushed,           \* history: ids passed to push_to_queue in this crawl_user
    insert_calls,     \* history: INSERT statements executed per id (capped at 2)
    exhausted,        \* history: users whose fetch failed in a cycle of the process
    world,            \* tweets that exist upstream (what an endpoint can serve)
    is_active,        \* watched_users.is_active (set by the management surface)
    fetched,          \* history: what the last fetch_user_timeline call did
    processing_status,\* tweets.processing_status: id -> status ("none" = no row)
    processed_tweets, \* table processed_tweets: id -> rows with that tweet_id
    upserts,          \* history: upserts into processed_tweets committed per id
    cascade_runs,     \* history: process_tweet calls that returned a result, per id
    ollama_enabled,   \* TweetProcessor.ollama_filter.enabled (fixed at start-up)
    w_pc,             \* position of the consumer in process_worker.main()
    w_running,        \* process_worker.running
    pending_tweets,   \* main.pending_tweets (ids of the batch)
    w_i,              \* position of the for loop in pending_tweets
    result,           \* process_single_tweet.result (with the calls process_tweet
                      \* made and the answers it got)
    w_wait_time,      \* remaining wait of the chunked wait between batches
    w_wake,           \* end of the consumer's current time.sleep
    w_signal_at,      \* history: time at which the consumer got the signal
    instances_cache,  \* Redis key nitter:instances:available [value, expireAt]
    discovery,        \* history: the calls of get_available_instances, the
                      \* probes and source-list requests they issued, and the
                      \* arguments and results of the last call
    cyc,              \* history of each coordinator's cycle: the refused
                      \* acquire, the ttl passed to acquire_lock, the authors
                      \* selected and visited, the ids marked in the current
                      \* crawl_user and the ids that were candidates of a list
    request,          \* one call of NitterCrawler._request_with_retry
    enrichment        \* one call of TweetProcessor.process_high_grade_tweet

vars == <<now, lock, dedup, queue, tweets_tbl, last_crawled_at, pc, running,
          cycle_count, lock_value, watched_users, username, latest_tweet_id,
          tweets, idx, wait_time, wake, granted, cyc_tok, rel, fetch_ok,
          checked, inserted, pushed, insert_calls, exhausted, world, is_active,
          fetched, processing_status, processed_tweets, upserts, cascade_runs,
          ollama_enabled, w_pc,
          w_running, pending_tweets, w_i, result, w_wait_time, w_wake,
          w_signal_at, instances_cache, discovery, cyc, request, enrichment>>

\* the consumer's own variables and the result table
wvars == <<processed_tweets, upserts, cascade_runs, ollama_enabled, w_pc, w_running,
           pending_tweets,
           w_i, result, w_wait_time, w_wake, w_signal_at>>

\* the registry's cache key and the history of its calls
rvars == <<instances_cache, discovery>>

\* the coordinators' variables and the Redis keys
cvars == <<lock, dedup, queue, last_crawled_at, pc, running, cycle_count,
           lock_value, watched_users, username, latest_tweet_id, tweets, idx,
           wait_time, wake, granted, cyc_tok, rel, fetch_ok, checked, inserted,
           pushed, insert_calls, exhausted, world, is_active, fetched, cyc>>

\* ------------------------------------------------------------- helpers
Max(S) == CHOOSE x \in S : \A y \in S : y <= x

MaxOf(a, b) == IF a >= b THEN a ELSE b

Range(s) == {s[i] : i \in 1..Len(s)}

Count(s, x) == Cardinality({i \in 1..Len(s) : s[i] = x})

Take(s, n) == SubSeq(s, 1, IF Len(s) < n THEN Len(s) ELSE n)

RECURSIVE DescSeq(_)
DescSeq(S) == IF S = {} THEN <<>> ELSE <<Max(S)>> \o DescSeq(S \ {Max(S)})

\* ------------------------------------------------------ static tables
priority == [u \in Users |-> CASE u = "alice" -> 2 [] u = "bob" -> 1 [] OTHER -> 3]

AuthorOf(t) == IF t = 1 THEN "bob" ELSE "alice"

\* every tweet was published before the clock starts
published_at(t) == t - MaxTweet

TweetsOf(u) == {t \in world : AuthorOf(t) = u}

\* newest-first timelines an endpoint can serve for a user
Timelines(u) == {DescSeq(S) : S \in (SUBSET TweetsOf(u)) \ {{}}}

Responses(u) ==
    {[status |-> "fail", items |-> <<>>], [status |-> "empty", items |-> <<>>]}
    \cup {[status |-> "ok", items |-> l] : l \in Timelines(u)}

\* ------------------------------------------------------- settings.py
\* variant: the floor of twice the interval is missing
calculate_lock_timeout_no_floor(user_count) ==
    user_count * ESTIMATED_TIME_PER_USER + CRAWL_INTERVAL

calculate_lock_timeout(user_count) ==
    LET timeout == user_count * ESTIMATED_TIME_PER_USER + CRAWL_INTERVAL
        min_timeout == CRAWL_INTERVAL * 2
    IN  MaxOf(timeout, min_timeout)

\* -------------------------------------------------- postgres_client.py
Due(u, lc, t) ==
    /\ is_active[u]
    /\ (lc[u] = -1 \/ t - lc[u] > CRAWL_USER_INTERVAL)

RECURSIVE OrderUsers(_)
OrderUsers(S) ==
    IF S = {} THEN <<>>
    ELSE LET u == CHOOSE x \in S : \A y \in S : priority[y] <= priority[x]
         IN  <<u>> \o OrderUsers(S \ {u})

\* variant: the last_crawled_at condition is missing from the query
get_watched_users_all(lc, t) == OrderUsers({u \in Users : is_active[u]})

get_watched_users(lc, t) == OrderUsers({u \in Users : Due(u, lc, t)})

get_crawl_lock_timeout(lc, t) ==
    calculate_lock_timeout(Cardinality({u \in Users : Due(u, lc, t)}))

get_latest_tweet_id(tbl, author) ==
    LET rows == {t \in TweetIds : tbl[t] > 0 /\ AuthorOf(t) = author}
    IN  IF rows = {} THEN NoId
        ELSE CHOOSE t \in rows : \A o \in rows : published_at(o) <= published_at(t)

\* variant: INSERT without the ON CONFLICT clause / unique constraint
insert_tweet_no_conflict(tbl, t) ==
    [tbl |-> [tbl EXCEPT ![t] = @ + 1], result |-> TRUE]

\* INSERT ... ON CONFLICT (tweet_id) DO NOTHING RETURNING id
insert_tweet(tbl, t) ==
    IF tbl[t] = 0
    THEN [tbl |-> [tbl EXCEPT ![t] = 1], result |-> TRUE]
    ELSE [tbl |-> tbl, result |-> FALSE]

\* ----------------------------------------------------- redis_client.py
\* variant: SET without nx=True
acquire_lock_no_nx(lk, token, expire, t) ==
    [lock |-> [value |-> token, expireAt |-> t + expire], result |-> token]

\* variant: SET nx=True with a wrong expiry (twice the requested one)
acquire_lock_long_ex(lk, token, expire, t) ==
    IF lk.value = NoToken
    THEN [lock |-> [value |-> token, expireAt |-> t + 2 * expire], result |-> token]
    ELSE [lock |-> lk, result |-> NoToken]

\* SET lock:<name> <uuid> NX EX <expire>
acquire_lock(lk, token, expire, t) ==
    IF lk.value = NoToken
    THEN [lock |-> [value |-> token, expireAt |-> t + expire], result |-> token]
    ELSE [lock |-> lk, result |-> NoToken]

\* variant: DEL without comparing the stored value
release_lock_unchecked(lk, token) ==
    [lock |-> NoLock, result |-> lk.value # NoToken]

\* Lua: if get(key) == token then del(key) else 0
release_lock(lk, token) ==
    IF lk.value = token
    THEN [lock |-> NoLock, result |-> TRUE]
    ELSE [lock |-> lk, result |-> FALSE]

dedup_exists(dd, t) == dd[t] # 0

dedup_setex(dd, t, expire, time) == [dd EXCEPT ![t] = time + expire]

\* variant: LPUSH instead of RPUSH
push_to_queue_left(q, data) == <<data>> \o q

push_to_queue(q, data) == Append(q, data)

\* Redis drops a key when the clock reaches its expiry
ExpireLock(lk, t) == IF lk.value # NoToken /\ lk.expireAt <= t THEN NoLock ELSE lk

ExpireDedup(dd, t) == [i \in TweetIds |-> IF dd[i] # 0 /\ dd[i] <= t THEN 0 ELSE dd[i]]

\* ---------------------------------------------------- nitter_crawler.py
\* variant: an empty parse is returned as success instead of trying the next instance
RECURSIVE TryInstancesAcceptEmpty(_, _)
TryInstancesAcceptEmpty(resp, k) ==
    IF k > Len(resp)
    THEN [ok |-> FALSE, tweets |-> <<>>, instance |-> 0, contacted |-> Len(resp)]
    ELSE IF resp[k].status # "fail"
         THEN [ok |-> TRUE, tweets |-> Take(resp[k].items, MAX_TWEETS),
               instance |-> k, contacted |-> k]
         ELSE TryInstancesAcceptEmpty(resp, k + 1)

\* variant: the loop does not return at the first served endpoint, the last
\* served one wins
RECURSIVE TryInstancesLastWins(_, _)
TryInstancesLastWins(resp, k) ==
    IF k > Len(resp)
    THEN [ok |-> FALSE, tweets |-> <<>>, instance |-> 0, contacted |-> Len(resp)]
    ELSE LET rest == TryInstancesLastWins(resp, k + 1)
         IN  IF rest.ok \/ ~(resp[k].status = "ok" /\ resp[k].items # <<>>)
             THEN rest
             ELSE [ok |-> TRUE, tweets |-> Take(resp[k].items, MAX_TWEETS),
                   instance |-> k, contacted |-> Len(resp)]

RECURSIVE TryInstances(_, _)
TryInstances(resp, k) ==
    IF k > Len(resp)
    THEN [ok |-> FALSE, tweets |-> <<>>, instance |-> 0, contacted |-> Len(resp)]
    ELSE IF resp[k].status = "ok" /\ resp[k].items # <<>>
         THEN [ok |-> TRUE, tweets |-> Take(resp[k].items, MAX_TWEETS),
               instance |-> k, contacted |-> k]
         ELSE TryInstances(resp, k + 1)

fetch_user_timeline(resp) == TryInstances(resp, 1)

\* variant: a 4xx answer is handled like a 5xx answer
retry_decision_retry_4xx(outcome, attempt, max_retries) ==
    IF outcome = "ok" THEN "return_response"
    ELSE IF attempt < max_retries THEN "retry"
    ELSE IF outcome \in {"http_5xx", "http_4xx"} THEN "return_none"
    ELSE "fall_through"

\* the body of "for attempt in range(1, max_retries + 1)" in
\* _request_with_retry: return the response; or sleep and continue ("retry");
\* or return None (an HTTPError below 500, or a 5xx on the last attempt); or
\* leave the except branch without continue ("fall_through": the other
\* exceptions on the last attempt)
retry_decision(outcome, attempt, max_retries) ==
    IF outcome = "ok" THEN "return_response"
    ELSE IF outcome = "http_4xx" THEN "return_none"
    ELSE IF attempt < max_retries THEN "retry"
    ELSE IF outcome = "http_5xx" THEN "return_none"
    ELSE "fall_through"

\* ------------------------------------------- postgres_client.py (consumer)
\* SELECT ... WHERE processing_status = 'pending' ORDER BY published_at DESC LIMIT n
get_pending_tweets(st, limit) ==
    Take(DescSeq({t \in TweetIds : st[t] = "pending"}), limit)

\* UPDATE tweets SET processing_status = status WHERE tweet_id = t
update_tweet_processing_status(st, t, status) ==
    IF st[t] = "none" THEN st ELSE [st EXCEPT ![t] = status]

\* the columns insert_processed_tweet writes; updated_at is set by NOW()
ResultRow(res, time) ==
    [grade |-> res.grade, summary |-> res.summary, embedding |-> res.embedding,
     updated_at |-> time]

\* variant: plain INSERT into a table without the UNIQUE (tweet_id) constraint
insert_processed_tweet_append(tbl, t, res, time) ==
    [tbl EXCEPT ![t] = Append(@, ResultRow(res, time))]

\* INSERT ... ON CONFLICT (tweet_id) DO UPDATE SET ..., updated_at = NOW()
insert_processed_tweet(tbl, t, res, time) ==
    [tbl EXCEPT ![t] = <<ResultRow(res, time)>>]

\* ---------------------------------------------------- ollama_filter.py
FilterOutcomes == {"yes", "no", "error"}

\* variant: a failed filter call counts as "not relevant"
is_relevant_fail_closed(f) == f = "yes"

\* "YES" in the answer; except Exception: return True
is_relevant(f) == f # "no"

\* --------------------------------------------------- tweet_processor.py
\* answers of the grading call: it raises, or returns a text in which some
\* labels occur ("A" is a label of the former vocabulary)
GradeResponses ==
    {[err |-> TRUE, labels |-> {}]}
    \cup {[err |-> FALSE, labels |-> L] :
             L \in {{}, {"A"}, {"P0"}, {"P2", "P5"}, {"P4"}, {"P6"}}}

EnrichOutcomes == {"ok", "unparseable"}

EmbedOutcomes == {"ok", "fail"}

\* for level in ["P0", ..., "P6"]: if level in response_upper: grade = level; break
FirstTier(labels) ==
    LET S == {i \in 1..Len(Tiers) : Tiers[i] \in labels}
    IN  IF S = {} THEN "none" ELSE Tiers[CHOOSE i \in S : \A j \in S : i <= j]

\* variant: the answer is returned as it is when no label was found
grade_tweet_no_default(g) ==
    IF g.err THEN "none" ELSE FirstTier(g.labels)

\* if not grade: grade = "P6"; except Exception: return "P6"
grade_tweet(g) ==
    IF g.err \/ FirstTier(g.labels) = "none" THEN LowestTier ELSE FirstTier(g.labels)

\* the summary is produced only when the answer parses to the expected JSON
process_high_grade_tweet(e) == e = "ok"

generate_embedding(m) == m = "ok"

\* "from datetime import datetime, timezone": the name timedelta that the
\* expiration check uses is not imported
timedelta_imported == FALSE

\* first step of process_tweet: "expired" returns at once; "error" is the
\* except branch, which goes on with the normal processing
ExpirationStage(pub, t) ==
    IF ENABLE_24H_EXPIRATION /\ pub # NoTime
    THEN IF ~timedelta_imported THEN "error"
         ELSE IF t - pub[1] > TWEET_EXPIRATION_HOURS THEN "expired" ELSE "fresh"
    ELSE "skipped"

\* process_tweet(tweet_id, content, author, published_at) with the answers
\* f, g, e, m of the filter, the grader, the enrichment and the embedder;
\* calls is the set of collaborators that were invoked
process_tweet(pub, t, filter_on, f, g, e, m) ==
    IF ExpirationStage(pub, t) = "expired"
    THEN [grade |-> LowestTier, summary |-> FALSE, embedding |-> FALSE,
          filter_source |-> "expired", calls |-> {}]
    ELSE IF filter_on /\ ~is_relevant(f)
    THEN [grade |-> LowestTier, summary |-> FALSE, embedding |-> FALSE,
          filter_source |-> "ollama_filtered", calls |-> {"filter"}]
    ELSE LET grade == grade_tweet(g)
             high == grade \in EnrichmentSet
             summary == high /\ process_high_grade_tweet(e)
             c0 == (IF filter_on THEN {"filter"} ELSE {}) \cup {"grader"}
             c1 == IF high THEN c0 \cup {"enrich"} ELSE c0
             c2 == IF summary THEN c1 \cup {"embed"} ELSE c1
         IN  [grade |-> grade, summary |-> summary,
              embedding |-> summary /\ generate_embedding(m),
              filter_source |-> "remote_llm", calls |-> c2]

\* ------------------------------------------------ instance_discovery.py
\* Redis drops the key when its expiry is reached
ExpireCache(c, t) == IF c.value # <<>> /\ t >= c.expireAt THEN NoCache ELSE c

\* json.dumps of a list of {"url": ..., "response_time": ...} objects: the
\* text holds one <<url, response_time>> pair per object, in list order
json_dumps(instances) ==
    [i \in 1..Len(instances) |-> <<instances[i].url, instances[i].response_time>>]

\* json.loads of such a text
json_loads(text) ==
    [i \in 1..Len(text) |-> [url |-> text[i][1], response_time |-> text[i][2]]]

\* variant: the cache is never consulted
load_from_cache_never(c, redis_ok) == <<>>

\* _load_from_cache: get_cache returns None when the key is absent or the
\* call fails; "if cached: return json.loads(cached)", else None
load_from_cache(c, redis_ok) ==
    IF redis_ok /\ c.value # <<>> THEN json_loads(c.value) ELSE <<>>

\* _save_to_cache: set_cache(key, json.dumps(instances), expire=...)
save_to_cache(c, instances, redis_ok, t) ==
    IF redis_ok
    THEN [value |-> json_dumps(instances), expireAt |-> t + CACHE_EXPIRE_INSTANCES]
    ELSE c

\* variant: the list is returned in the order of completion, without the sort
RankingsUnsorted(to_check, probe) ==
    LET avail == {u \in to_check : probe[u] > 0}
        n == Cardinality(avail)
    IN  {[i \in 1..n |-> [url |-> f[i], response_time |-> probe[f[i]]]] :
            f \in {g \in [1..n -> avail] :
                      \A i, j \in 1..n : i # j => g[i] # g[j]}}

\* check_instances_batch: the available endpoints in any order of completion,
\* then a stable sort by response_time; probe[u] = 0 is an unavailable endpoint
Rankings(to_check, probe) ==
    LET avail == {u \in to_check : probe[u] > 0}
        n == Cardinality(avail)
    IN  {[i \in 1..n |-> [url |-> f[i], response_time |-> probe[f[i]]]] :
            f \in {g \in [1..n -> avail] :
                      /\ \A i, j \in 1..n : i # j => g[i] # g[j]
                      /\ \A i, j \in 1..n : i < j => probe[g[i]] <= probe[g[j]]}}

\* ------------------------------------------------------ process_worker.py
\* variant: the caller hands the tweet's published_at to process_tweet
PublishedArgPassed(t) == <<published_at(t)>>

\* process_single_tweet calls process_tweet(tweet_id, content, author):
\* published_at keeps its default
PublishedArg(t) == NoTime

\* ------------------------------------------------------------ main.py
\* variant: the "tweets is None" test is missing
AllFailedIgnored(r) == FALSE

\* if tweets is None: raise
AllFailed(r) == ~r.ok

\* every ranked endpoint failed or parsed to an empty list
NoEndpointServed(resp) == \A k \in DOMAIN resp : resp[k].items = <<>>

\* rank of the first endpoint whose response parses to a non-empty list
FirstServing(resp) ==
    LET S == {k \in DOMAIN resp : resp[k].status = "ok" /\ resp[k].items # <<>>}
    IN  IF S = {} THEN 0 ELSE CHOOSE k \in S : \A j \in S : k <= j

\* variant: the finally block does not release
HasLockNever(lv) == FALSE

\* finally: if lock_value:
HasLock(lv) == lv # NoToken

\* variant: stop at any id not newer than the cursor
IsCutoffNotNewer(tweet, latest) == tweet <= latest

\* if tweet_id == latest_tweet_id: break
IsCutoff(tweet, latest) == tweet = latest

\* ------------------------------------------------------------- Init
Init ==
    /\ now = 0
    /\ lock = NoLock
    /\ dedup = [t \in TweetIds |-> 0]
    /\ queue = <<>>
    /\ tweets_tbl = [t \in TweetIds |-> 0]
    /\ last_crawled_at = [u \in Users |-> -1]
    /\ pc = [p \in Procs |-> "loop"]
    /\ running = [p \in Procs |-> TRUE]
    /\ cycle_count = [p \in Procs |-> 0]
    /\ lock_value = [p \in Procs |-> NoToken]
    /\ watched_users = [p \in Procs |-> <<>>]
    /\ username = [p \in Procs |-> "alice"]
    /\ latest_tweet_id = [p \in Procs |-> NoId]
    /\ tweets = [p \in Procs |-> <<>>]
    /\ idx = [p \in Procs |-> 1]
    /\ wait_time = [p \in Procs |-> 0]
    /\ wake = [p \in Procs |-> 0]
    /\ granted = [p \in Procs |-> NoGrant]
    /\ cyc_tok = [p \in Procs |-> NoToken]
    /\ rel = [p \in Procs |-> NoRel]
    /\ fetch_ok = [p \in Procs |-> "none"]
    /\ checked = [p \in Procs |-> <<>>]
    /\ inserted = [p \in Procs |-> <<>>]
    /\ pushed = [p \in Procs |-> <<>>]
    /\ insert_calls = [t \in TweetIds |-> 0]
    /\ exhausted = [p \in Procs |-> {}]
    /\ world = {1}
    /\ is_active = [u \in Users |-> u = "bob"]
    /\ fetched = [p \in Procs |-> NoFetch]
    /\ processing_status = [t \in TweetIds |-> "none"]
    /\ processed_tweets = [t \in TweetIds |-> <<>>]
    /\ upserts = [t \in TweetIds |-> 0]
    /\ cascade_runs = [t \in TweetIds |-> 0]
    /\ ollama_enabled = FALSE
    /\ w_pc = "w_stopped"
    /\ w_running = FALSE
    /\ pending_tweets = <<>>
    /\ w_i = 1
    /\ result = NoResult
    /\ w_wait_time = 0
    /\ w_wake = 0
    /\ w_signal_at = -1
    /\ instances_cache = NoCache
    /\ discovery = NoCall
    /\ cyc = [p \in Procs |-> NoCycle]
    /\ request = NoRequest
    /\ enrichment = NoEnrichment


\* ------------------------------------------------------------ actions
MinOf(a, b) == IF a <= b THEN a ELSE b

\* the chunked wait loops of main() start with a first time.sleep(sleep_chunk)
StartWait(p, kind) ==
    /\ wait_time' = [wait_time EXCEPT ![p] = CRAWL_INTERVAL]
    /\ wake' = [wake EXCEPT ![p] = now + MinOf(1, CRAWL_INTERVAL)]
    /\ pc' = [pc EXCEPT ![p] = kind]

\* variant: after the wait of a skipped cycle the cycle body is entered
AfterWaitSelect(kind) == IF kind = "wait_skip" THEN "select" ELSE "finally"

AfterWait(kind) == IF kind = "wait_skip" THEN "loop" ELSE "finally"

\* while running: cycle_count += 1; lock_value = acquire_lock(...)
LoopHead(p) ==
    /\ pc[p] = "loop"
    /\ IF ~running[p]
       THEN \* the process exits: its locals are gone
            /\ pc' = [pc EXCEPT ![p] = "stopped"]
            /\ cycle_count' = [cycle_count EXCEPT ![p] = 0]
            /\ cyc_tok' = [cyc_tok EXCEPT ![p] = NoToken]
            /\ rel' = [rel EXCEPT ![p] = NoRel]
            /\ exhausted' = [exhausted EXCEPT ![p] = {}]
            /\ cyc' = [cyc EXCEPT ![p] = NoCycle]
            /\ UNCHANGED <<lock, lock_value, wait_time, wake, granted>>
       ELSE /\ cycle_count[p] < MaxCycles
            /\ LET token == <<p, cycle_count[p] + 1>>
                   expire == get_crawl_lock_timeout(last_crawled_at, now)
                   r == acquire_lock(lock, token, expire, now)
               IN  /\ cycle_count' = [cycle_count EXCEPT ![p] = @ + 1]
                   /\ lock' = r.lock
                   /\ lock_value' = [lock_value EXCEPT ![p] = r.result]
                   /\ cyc_tok' = [cyc_tok EXCEPT ![p] = r.result]
                   /\ rel' = [rel EXCEPT ![p] = NoRel]
                   /\ cyc' = [cyc EXCEPT
                                ![p].ttl = expire,
                                ![p].due = Cardinality(
                                    {u \in Users : Due(u, last_crawled_at, now)}),
                                ![p].skipped_at =
                                    IF r.result = NoToken THEN now ELSE -1]
                   /\ IF r.result # NoToken
                      THEN /\ granted' = [granted EXCEPT ![p] =
                                             [tok |-> token, exp |-> now + expire]]
                           /\ pc' = [pc EXCEPT ![p] = "select"]
                           /\ UNCHANGED <<wait_time, wake>>
                      ELSE /\ granted' = granted
                           /\ StartWait(p, "wait_skip")
                   /\ exhausted' = exhausted
    /\ UNCHANGED <<processing_status, wvars, rvars, request, enrichment>>
    /\ UNCHANGED <<now, dedup, queue, tweets_tbl, last_crawled_at, running,
                   watched_users, username, latest_tweet_id, tweets, idx,
                   fetch_ok, checked, inserted, pushed, insert_calls, world, is_active, fetched>>

\* one time.sleep(sleep_chunk) of a wait loop has elapsed
WaitChunk(p) ==
    /\ pc[p] \in {"wait_skip", "wait_idle", "wait_cycle"}
    /\ now >= wake[p]
    /\ LET left == wait_time[p] - MinOf(1, wait_time[p])
       IN  /\ wait_time' = [wait_time EXCEPT ![p] = left]
           /\ IF left > 0 /\ running[p]
              THEN /\ wake' = [wake EXCEPT ![p] = now + MinOf(1, left)]
                   /\ pc' = pc
              ELSE /\ wake' = [wake EXCEPT ![p] = 0]
                   /\ pc' = [pc EXCEPT ![p] = AfterWait(pc[p])]
    /\ cyc' = [cyc EXCEPT ![p].ttl = 0, ![p].due = 0]
    /\ UNCHANGED <<processing_status, wvars, rvars, request, enrichment>>
    /\ UNCHANGED <<now, lock, dedup, queue, tweets_tbl, last_crawled_at, running,
                   cycle_count, lock_value, watched_users, username,
                   latest_tweet_id, tweets, idx, granted, cyc_tok, rel, fetch_ok,
                   checked, inserted, pushed, insert_calls, exhausted, world, is_active, fetched>>

\* watched_users = pg_client.get_watched_users(...)
Select(p) ==
    /\ pc[p] = "select"
    /\ \E db_error \in BOOLEAN :
         IF db_error
         THEN \* except Exception: if running: time.sleep(CRAWL_INTERVAL)
              /\ IF running[p]
                 THEN /\ wake' = [wake EXCEPT ![p] = now + CRAWL_INTERVAL]
                      /\ pc' = [pc EXCEPT ![p] = "sleep_exc"]
                 ELSE /\ wake' = wake
                      /\ pc' = [pc EXCEPT ![p] = "finally"]
              /\ UNCHANGED watched_users
              /\ cyc' = [cyc EXCEPT ![p].ttl = 0, ![p].due = 0]
         ELSE LET users == get_watched_users(last_crawled_at, now)
              IN  /\ watched_users' = [watched_users EXCEPT ![p] = users]
                  /\ cyc' = [cyc EXCEPT ![p].ttl = 0, ![p].due = 0,
                                        ![p].selected = users]
                  /\ pc' = [pc EXCEPT ![p] =
                              IF users = <<>> THEN "release_idle" ELSE "user"]
                  /\ wake' = wake
    /\ UNCHANGED <<processing_status, wvars, rvars, request, enrichment>>
    /\ UNCHANGED <<now, lock, dedup, queue, tweets_tbl, last_crawled_at, running,
                   cycle_count, lock_value, username, latest_tweet_id, tweets,
                   idx, wait_time, granted, cyc_tok, rel, fetch_ok, checked,
                   inserted, pushed, insert_calls, exhausted, world, is_active, fetched>>

\* no user is due: release_lock(lock_name, lock_value); lock_value = None
ReleaseIdle(p) ==
    /\ pc[p] = "release_idle"
    /\ LET r == release_lock(lock, lock_value[p])
       IN  /\ lock' = r.lock
           /\ rel' = [rel EXCEPT ![p] =
                        [called |-> TRUE, tok |-> lock_value[p], ret |-> r.result]]
    /\ granted' = [granted EXCEPT ![p] = NoGrant]
    /\ lock_value' = [lock_value EXCEPT ![p] = NoToken]
    /\ IF running[p]
       THEN StartWait(p, "wait_idle")
       ELSE /\ pc' = [pc EXCEPT ![p] = "finally"]
            /\ UNCHANGED <<wait_time, wake>>
    /\ UNCHANGED <<processing_status, wvars, rvars, request, enrichment>>
    /\ UNCHANGED <<now, dedup, queue, tweets_tbl, last_crawled_at, running,
                   cycle_count, watched_users, username, latest_tweet_id, tweets,
                   idx, cyc_tok, fetch_ok, checked, inserted, pushed, insert_calls,
                   exhausted, world, is_active, fetched, cyc>>

\* time.sleep(CRAWL_INTERVAL) of the except branch has elapsed
SleepExc(p) ==
    /\ pc[p] = "sleep_exc"
    /\ now >= wake[p]
    /\ pc' = [pc EXCEPT ![p] = "finally"]
    /\ wake' = [wake EXCEPT ![p] = 0]
    /\ UNCHANGED <<processing_status, wvars, rvars, request, enrichment>>
    /\ UNCHANGED <<now, lock, dedup, queue, tweets_tbl, last_crawled_at, running,
                   cycle_count, lock_value, watched_users, username,
                   latest_tweet_id, tweets, idx, wait_time, granted,
                   cyc_tok, rel, fetch_ok, checked, inserted, pushed, insert_calls,
                   exhausted, world, is_active, fetched, cyc>>

\* for user in watched_users: if not running: break; crawl_user begins with
\* get_latest_tweet_id.  After the loop: if not running: break, else wait.
NextUser(p) ==
    /\ pc[p] = "user"
    /\ IF ~running[p]
       THEN /\ pc' = [pc EXCEPT ![p] = "finally"]
            /\ UNCHANGED <<watched_users, username, latest_tweet_id, wait_time,
                           wake, cyc>>
       ELSE IF watched_users[p] = <<>>
       THEN /\ StartWait(p, "wait_cycle")
            /\ UNCHANGED <<watched_users, username, latest_tweet_id, cyc>>
       ELSE /\ username' = [username EXCEPT ![p] = Head(watched_users[p])]
            /\ cyc' = [cyc EXCEPT ![p].visited = Append(@, Head(watched_users[p]))]
            /\ watched_users' = [watched_users EXCEPT ![p] = Tail(@)]
            /\ \E db_error \in BOOLEAN :
                 latest_tweet_id' = [latest_tweet_id EXCEPT ![p] =
                     IF db_error THEN NoId
                     ELSE get_latest_tweet_id(tweets_tbl, Head(watched_users[p]))]
            /\ pc' = [pc EXCEPT ![p] = "fetch"]
            /\ UNCHANGED <<wait_time, wake>>
    /\ UNCHANGED <<processing_status, wvars, rvars, request, enrichment>>
    /\ UNCHANGED <<now, lock, dedup, queue, tweets_tbl, last_crawled_at, running,
                   cycle_count, lock_value, tweets, idx, granted, cyc_tok, rel,
                   fetch_ok, checked, inserted, pushed, insert_calls, exhausted, world, is_active, fetched>>

\* tweets = crawler.fetch_user_timeline(username); None raises
Fetch(p) ==
    /\ pc[p] = "fetch"
    /\ \E resp \in [1..NumInstances -> Responses(username[p])] :
         LET r == fetch_user_timeline(resp)
         IN  /\ IF AllFailed(r)
                THEN \* raise Exception -> except branch of main -> next user
                     /\ pc' = [pc EXCEPT ![p] = "user"]
                     /\ tweets' = [tweets EXCEPT ![p] = <<>>]
                ELSE \* "if not tweets: return 0", else the for loop
                     /\ pc' = [pc EXCEPT ![p] =
                                 IF r.tweets = <<>> THEN "mark_crawled" ELSE "walk"]
                     /\ tweets' = [tweets EXCEPT ![p] = r.tweets]
             /\ fetch_ok' = [fetch_ok EXCEPT ![p] =
                                IF NoEndpointServed(resp) THEN "exhausted" ELSE "ok"]
             /\ exhausted' = [exhausted EXCEPT ![p] =
                                IF NoEndpointServed(resp) THEN @ \cup {username[p]} ELSE @]
             /\ fetched' = [fetched EXCEPT ![p] =
                               IF FirstServing(resp) = 0 THEN NoFetch
                               ELSE [first |-> FirstServing(resp),
                                     items |-> resp[FirstServing(resp)].items,
                                     instance |-> r.instance,
                                     contacted |-> r.contacted]]
    /\ idx' = [idx EXCEPT ![p] = 1]
    /\ checked' = [checked EXCEPT ![p] = <<>>]
    /\ inserted' = [inserted EXCEPT ![p] = <<>>]
    /\ pushed' = [pushed EXCEPT ![p] = <<>>]
    /\ cyc' = [cyc EXCEPT ![p].marked = {}, ![p].failed = {}]
    /\ UNCHANGED <<processing_status, wvars, rvars, request, enrichment>>
    /\ UNCHANGED <<now, lock, dedup, queue, tweets_tbl, last_crawled_at, running,
                   cycle_count, lock_value, watched_users, username,
                   latest_tweet_id, wait_time, wake, granted, cyc_tok, rel,
                   insert_calls, world, is_active>>

\* for tweet in tweets: cutoff test, then the EXISTS of is_duplicate
Walk(p) ==
    /\ pc[p] = "walk"
    /\ IF idx[p] > Len(tweets[p]) \/ IsCutoff(tweets[p][idx[p]], latest_tweet_id[p])
       THEN /\ pc' = [pc EXCEPT ![p] = "mark_crawled"]
            /\ UNCHANGED <<idx, checked, cyc>>
       ELSE LET tweet_id == tweets[p][idx[p]]
            IN  /\ checked' = [checked EXCEPT ![p] = Append(@, tweet_id)]
                /\ cyc' = [cyc EXCEPT ![p].seen = @ \cup {tweet_id}]
                /\ IF dedup_exists(dedup, tweet_id)
                   THEN /\ idx' = [idx EXCEPT ![p] = @ + 1]
                        /\ pc' = pc
                   ELSE /\ idx' = idx
                        /\ pc' = [pc EXCEPT ![p] = "setex"]
    /\ fetched' = [fetched EXCEPT ![p] = NoFetch]
    /\ UNCHANGED <<processing_status, wvars, rvars, request, enrichment>>
    /\ UNCHANGED <<now, lock, dedup, queue, tweets_tbl, last_crawled_at, running,
                   cycle_count, lock_value, watched_users, username,
                   latest_tweet_id, tweets, wait_time, wake, granted, cyc_tok,
                   rel, fetch_ok, inserted, pushed, insert_calls, exhausted, world, is_active>>

\* the SETEX of is_duplicate
Setex(p) ==
    /\ pc[p] = "setex"
    /\ dedup' = dedup_setex(dedup, tweets[p][idx[p]], DEDUP_EXPIRE, now)
    /\ pc' = [pc EXCEPT ![p] = "insert"]
    /\ cyc' = [cyc EXCEPT ![p].marked = @ \cup {tweets[p][idx[p]]}]
    /\ UNCHANGED <<processing_status, wvars, rvars, request, enrichment>>
    /\ UNCHANGED <<now, lock, queue, tweets_tbl, last_crawled_at, running,
                   cycle_count, lock_value, watched_users, username,
                   latest_tweet_id, tweets, idx, wait_time, wake, granted,
                   cyc_tok, rel, fetch_ok, checked, inserted, pushed, insert_calls,
                   exhausted, world, is_active, fetched>>

\* result = pg_client.insert_tweet(tweet)
Insert(p) ==
    /\ pc[p] = "insert"
    /\ LET tweet_id == tweets[p][idx[p]]
       IN  \E db_error \in BOOLEAN :
             IF db_error
             THEN /\ idx' = [idx EXCEPT ![p] = @ + 1]
                  /\ pc' = [pc EXCEPT ![p] = "walk"]
                  /\ cyc' = [cyc EXCEPT ![p].failed = @ \cup {tweet_id}]
                  /\ UNCHANGED <<tweets_tbl, inserted, insert_calls, processing_status>>
             ELSE LET r == insert_tweet(tweets_tbl, tweet_id)
                  IN  /\ tweets_tbl' = r.tbl
                      /\ cyc' = cyc
                      /\ insert_calls' = [insert_calls EXCEPT ![tweet_id] = MinOf(2, @ + 1)]
                      /\ IF r.result
                         THEN \* the new row gets the column default 'pending'
                              /\ inserted' = [inserted EXCEPT ![p] = Append(@, tweet_id)]
                              /\ processing_status' =
                                     [processing_status EXCEPT ![tweet_id] = "pending"]
                              /\ pc' = [pc EXCEPT ![p] = "push"]
                              /\ idx' = idx
                         ELSE /\ inserted' = inserted
                              /\ processing_status' = processing_status
                              /\ pc' = [pc EXCEPT ![p] = "walk"]
                              /\ idx' = [idx EXCEPT ![p] = @ + 1]
    /\ UNCHANGED <<wvars, rvars, request, enrichment>>
    /\ UNCHANGED <<now, lock, dedup, queue, last_crawled_at, running,
                   cycle_count, lock_value, watched_users, username,
                   latest_tweet_id, tweets, wait_time, wake, granted, cyc_tok,
                   rel, fetch_ok, checked, pushed, exhausted, world, is_active, fetched>>

\* redis_client.push_to_queue(settings.REDIS_QUEUE_PROCESS, tweet_id)
Push(p) ==
    /\ pc[p] = "push"
    /\ queue' = push_to_queue(queue, tweets[p][idx[p]])
    /\ pushed' = [pushed EXCEPT ![p] = Append(@, tweets[p][idx[p]])]
    /\ idx' = [idx EXCEPT ![p] = @ + 1]
    /\ pc' = [pc EXCEPT ![p] = "walk"]
    /\ UNCHANGED <<processing_status, wvars, rvars, request, enrichment>>
    /\ UNCHANGED <<now, lock, dedup, tweets_tbl, last_crawled_at, running,
                   cycle_count, lock_value, watched_users, username,
                   latest_tweet_id, tweets, wait_time, wake, granted, cyc_tok,
                   rel, fetch_ok, checked, inserted, insert_calls, exhausted, world, is_active, fetched, cyc>>

\* UPDATE watched_users SET last_crawled_at = NOW() WHERE username = %s
MarkCrawled(p) ==
    /\ pc[p] = "mark_crawled"
    /\ \E db_error \in BOOLEAN :
         /\ last_crawled_at' = IF db_error THEN last_crawled_at
                                ELSE [last_crawled_at EXCEPT ![username[p]] = now]
         /\ fetch_ok' = [fetch_ok EXCEPT ![p] =
                            IF db_error THEN "update_failed" ELSE "updated"]
    /\ fetched' = [fetched EXCEPT ![p] = NoFetch]
    /\ pc' = [pc EXCEPT ![p] = "user"]
    /\ tweets' = [tweets EXCEPT ![p] = <<>>]
    /\ idx' = [idx EXCEPT ![p] = 1]
    /\ checked' = [checked EXCEPT ![p] = <<>>]
    /\ inserted' = [inserted EXCEPT ![p] = <<>>]
    /\ pushed' = [pushed EXCEPT ![p] = <<>>]
    /\ latest_tweet_id' = [latest_tweet_id EXCEPT ![p] = NoId]
    /\ cyc' = [cyc EXCEPT ![p].marked = {}, ![p].failed = {}]
    /\ UNCHANGED <<processing_status, wvars, rvars, request, enrichment>>
    /\ UNCHANGED <<now, lock, dedup, queue, tweets_tbl, running, cycle_count,
                   lock_value, watched_users, username, wait_time, wake, granted,
                   cyc_tok, rel, insert_calls, exhausted, world, is_active>>

\* finally: if lock_value: release_lock(lock_name, lock_value)
Finally(p) ==
    /\ pc[p] = "finally"
    /\ IF HasLock(lock_value[p])
       THEN LET r == release_lock(lock, lock_value[p])
            IN  /\ lock' = r.lock
                /\ rel' = [rel EXCEPT ![p] =
                             [called |-> TRUE, tok |-> lock_value[p], ret |-> r.result]]
                /\ granted' = [granted EXCEPT ![p] = NoGrant]
       ELSE UNCHANGED <<lock, rel, granted>>
    /\ pc' = [pc EXCEPT ![p] = "loop"]
    /\ watched_users' = [watched_users EXCEPT ![p] = <<>>]
    /\ username' = [username EXCEPT ![p] = "alice"]
    /\ fetch_ok' = [fetch_ok EXCEPT ![p] = "none"]
    /\ latest_tweet_id' = [latest_tweet_id EXCEPT ![p] = NoId]
    /\ lock_value' = [lock_value EXCEPT ![p] = NoToken]
    /\ wait_time' = [wait_time EXCEPT ![p] = 0]
    /\ cyc' = [cyc EXCEPT ![p].selected = <<>>, ![p].visited = <<>>,
                          ![p].marked = {}, ![p].failed = {}]
    /\ UNCHANGED <<processing_status, wvars, rvars, request, enrichment>>
    /\ UNCHANGED <<now, dedup, queue, tweets_tbl, last_crawled_at, running,
                   cycle_count, tweets,
                   idx, wake, cyc_tok, checked, inserted, pushed,
                   insert_calls, exhausted, world, is_active, fetched>>

\* signal_handler: running = False
Signal(p) ==
    /\ running[p]
    /\ pc[p] # "stopped"
    /\ running' = [running EXCEPT ![p] = FALSE]
    /\ UNCHANGED <<processing_status, wvars, rvars, request, enrichment>>
    /\ UNCHANGED <<now, lock, dedup, queue, tweets_tbl, last_crawled_at, pc,
                   cycle_count, lock_value, watched_users, username,
                   latest_tweet_id, tweets, idx, wait_time, wake, granted,
                   cyc_tok, rel, fetch_ok, checked, inserted, pushed, insert_calls,
                   exhausted, world, is_active, fetched, cyc>>

\* one second passes; Redis drops the keys whose expiry is reached
Tick ==
    /\ now < MaxTime
    /\ now' = now + 1
    /\ lock' = ExpireLock(lock, now + 1)
    /\ dedup' = ExpireDedup(dedup, now + 1)
    /\ instances_cache' = ExpireCache(instances_cache, now + 1)
    /\ UNCHANGED <<processing_status, wvars, discovery, cyc, request, enrichment>>
    /\ UNCHANGED <<queue, tweets_tbl, last_crawled_at, pc, running, cycle_count,
                   lock_value, watched_users, username, latest_tweet_id, tweets,
                   idx, wait_time, wake, granted, cyc_tok, rel, fetch_ok,
                   checked, inserted, pushed, insert_calls, exhausted, world, is_active, fetched>>

\* ------------------------------------------------- consumer actions
\* variant: the for loop is left after the first item
AfterItemBreak ==
    /\ w_wake' = w_wake
    /\ w_pc' = "w_item"
    /\ w_i' = Len(pending_tweets) + 1

\* end of process_single_tweet: "if i < len(pending_tweets) and running:
\* time.sleep(1)", then the next iteration of the for loop
AfterItem ==
    /\ IF w_i < Len(pending_tweets) /\ w_running
       THEN /\ w_wake' = now + ITEM_DELAY
            /\ w_pc' = "w_sleep_item"
            /\ w_i' = w_i
       ELSE /\ w_wake' = w_wake
            /\ w_pc' = "w_item"
            /\ w_i' = w_i + 1

\* while running: pending_tweets = pg_client.get_pending_tweets(limit=10);
\* an empty batch (or a failed query) sleeps and starts over
WLoopHead ==
    /\ w_pc = "w_loop"
    /\ IF ~w_running
       THEN /\ w_pc' = "w_stopped"
            /\ UNCHANGED <<pending_tweets, w_i, w_wake>>
       ELSE \E db_error \in BOOLEAN :
              LET batch == IF db_error THEN <<>>
                           ELSE get_pending_tweets(processing_status, BATCH_LIMIT)
              IN  IF batch = <<>>
                  THEN /\ w_wake' = now + WORKER_INTERVAL
                       /\ w_pc' = "w_sleep_empty"
                       /\ UNCHANGED <<pending_tweets, w_i>>
                  ELSE /\ pending_tweets' = batch
                       /\ w_i' = 1
                       /\ w_pc' = "w_item"
                       /\ w_wake' = w_wake
    /\ UNCHANGED <<now, tweets_tbl, processing_status, processed_tweets, upserts, cascade_runs,
                   ollama_enabled, w_running, result, w_wait_time, w_signal_at,
                   cvars, rvars, request, enrichment>>

\* the time.sleep(5) of an empty batch has elapsed: continue
WSleepEmpty ==
    /\ w_pc = "w_sleep_empty"
    /\ now >= w_wake
    /\ w_pc' = "w_loop"
    /\ w_wake' = 0
    /\ UNCHANGED <<now, tweets_tbl, processing_status, processed_tweets, upserts, cascade_runs,
                   ollama_enabled, w_running, pending_tweets, w_i, result,
                   w_wait_time, w_signal_at, cvars, rvars, request, enrichment>>

\* for tweet in pending_tweets: if not running: break; process_single_tweet
\* starts with update_tweet_processing_status(tweet_id, "processing").
\* After the loop: if not running: break, else the chunked wait.
WItem ==
    /\ w_pc = "w_item"
    /\ IF ~w_running
       THEN /\ w_pc' = "w_stopped"
            /\ pending_tweets' = <<>>
            /\ w_i' = 1
            /\ UNCHANGED <<processing_status, w_wait_time, w_wake>>
       ELSE IF w_i > Len(pending_tweets)
       THEN /\ w_wait_time' = WORKER_INTERVAL
            /\ w_wake' = now + MinOf(1, WORKER_INTERVAL)
            /\ w_pc' = "w_wait"
            /\ pending_tweets' = <<>>
            /\ w_i' = 1
            /\ UNCHANGED processing_status
       ELSE /\ \E db_error \in BOOLEAN :
                 processing_status' =
                     IF db_error THEN processing_status
                     ELSE update_tweet_processing_status(
                              processing_status, pending_tweets[w_i], "processing")
            /\ w_pc' = "w_process"
            /\ UNCHANGED <<pending_tweets, w_i, w_wait_time, w_wake>>
    /\ UNCHANGED <<now, tweets_tbl, processed_tweets, upserts, cascade_runs, ollama_enabled, w_running,
                   result, w_signal_at, cvars, rvars, request, enrichment>>

\* result = processor.process_tweet(tweet_id, content, author); an exception
\* raised inside the try block goes to "except Exception":
\* update_tweet_processing_status(tweet_id, "failed"); return False
WProcess ==
    /\ w_pc = "w_process"
    /\ \E raised \in BOOLEAN :
         IF raised
         THEN /\ \E db_error \in BOOLEAN :
                   processing_status' =
                       IF db_error THEN processing_status
                       ELSE update_tweet_processing_status(
                                processing_status, pending_tweets[w_i], "failed")
              /\ result' = NoResult
              /\ cascade_runs' = cascade_runs
              /\ AfterItem
         ELSE /\ \E f \in FilterOutcomes, g \in GradeResponses,
                    e \in EnrichOutcomes, m \in EmbedOutcomes :
                   LET tweet_id == pending_tweets[w_i]
                       r == process_tweet(PublishedArg(tweet_id), now,
                                          ollama_enabled, f, g, e, m)
                   IN  /\ result' =
                              [grade |-> r.grade, summary |-> r.summary,
                               embedding |-> r.embedding,
                               filter_source |-> r.filter_source,
                               calls |-> r.calls,
                               aged |-> now - published_at(tweet_id)
                                           > TWEET_EXPIRATION_HOURS,
                               filter |-> IF "filter" \in r.calls THEN f
                                                                  ELSE "none",
                               grader_failed |-> "grader" \in r.calls /\ g.err,
                               labels |-> IF "grader" \in r.calls THEN g.labels
                                                                  ELSE {}]
                       /\ w_pc' = IF r.grade \in EnrichmentSet THEN "w_persist"
                                                                 ELSE "w_complete"
              /\ cascade_runs' = [cascade_runs EXCEPT ![pending_tweets[w_i]] = @ + 1]
              /\ UNCHANGED <<processing_status, w_i, w_wake>>
    /\ UNCHANGED <<now, tweets_tbl, processed_tweets, upserts, ollama_enabled,
                   w_running, pending_tweets, w_wait_time, w_signal_at, cvars, rvars, request, enrichment>>

\* record_id = pg_client.insert_processed_tweet(result); if not record_id:
\* update_tweet_processing_status(tweet_id, "failed"); return False
WPersist ==
    /\ w_pc = "w_persist"
    /\ LET tweet_id == pending_tweets[w_i]
       IN  \E db_error \in BOOLEAN :
             IF db_error
             THEN /\ \E db_error2 \in BOOLEAN :
                       processing_status' =
                           IF db_error2 THEN processing_status
                           ELSE update_tweet_processing_status(
                                    processing_status, tweet_id, "failed")
                  /\ UNCHANGED <<processed_tweets, upserts>>
                  /\ result' = NoResult
                  /\ AfterItem
             ELSE /\ processed_tweets' =
                         insert_processed_tweet(processed_tweets, tweet_id, result, now)
                  /\ upserts' = [upserts EXCEPT ![tweet_id] = @ + 1]
                  /\ w_pc' = "w_complete"
                  /\ UNCHANGED <<processing_status, result, w_i, w_wake>>
    /\ UNCHANGED <<now, tweets_tbl, cascade_runs, ollama_enabled, w_running,
                   pending_tweets, w_wait_time, w_signal_at, cvars, rvars, request, enrichment>>

\* pg_client.update_tweet_processing_status(tweet_id, "completed"); return True
WComplete ==
    /\ w_pc = "w_complete"
    /\ \E db_error \in BOOLEAN :
         processing_status' =
             IF db_error THEN processing_status
             ELSE update_tweet_processing_status(
                      processing_status, pending_tweets[w_i], "completed")
    /\ result' = NoResult
    /\ AfterItem
    /\ UNCHANGED <<now, tweets_tbl, processed_tweets, upserts, cascade_runs, ollama_enabled, w_running,
                   pending_tweets, w_wait_time, w_signal_at, cvars, rvars, request, enrichment>>

\* the time.sleep(1) between two items has elapsed
WSleepItem ==
    /\ w_pc = "w_sleep_item"
    /\ now >= w_wake
    /\ w_pc' = "w_item"
    /\ w_i' = w_i + 1
    /\ w_wake' = 0
    /\ UNCHANGED <<now, tweets_tbl, processing_status, processed_tweets, upserts, cascade_runs,
                   ollama_enabled, w_running, pending_tweets, result,
                   w_wait_time, w_signal_at, cvars, rvars, request, enrichment>>

\* one time.sleep(sleep_chunk) of the wait between batches has elapsed
WWaitChunk ==
    /\ w_pc = "w_wait"
    /\ now >= w_wake
    /\ LET left == w_wait_time - MinOf(1, w_wait_time)
       IN  /\ w_wait_time' = IF left > 0 /\ w_running THEN left ELSE 0
           /\ IF left > 0 /\ w_running
              THEN /\ w_wake' = now + MinOf(1, left)
                   /\ w_pc' = w_pc
              ELSE /\ w_wake' = 0
                   /\ w_pc' = "w_loop"
    /\ UNCHANGED <<now, tweets_tbl, processing_status, processed_tweets, upserts, cascade_runs,
                   ollama_enabled, w_running, pending_tweets, w_i, result,
                   w_signal_at, cvars, rvars, request, enrichment>>

\* signal_handler of process_worker.py: running = False
WSignal ==
    /\ w_running
    /\ w_pc # "w_stopped"
    /\ w_running' = FALSE
    /\ w_signal_at' = now
    /\ UNCHANGED <<now, tweets_tbl, processing_status, processed_tweets, upserts, cascade_runs,
                   ollama_enabled, w_pc, pending_tweets, w_i, result,
                   w_wait_time, w_wake, cvars, rvars, request, enrichment>>

Next ==
    \/ \E p \in Procs : LoopHead(p)
    \/ \E p \in Procs : WaitChunk(p)
    \/ \E p \in Procs : Select(p)
    \/ \E p \in Procs : ReleaseIdle(p)
    \/ \E p \in Procs : SleepExc(p)
    \/ \E p \in Procs : NextUser(p)
    \/ \E p \in Procs : Fetch(p)
    \/ \E p \in Procs : Walk(p)
    \/ \E p \in Procs : Setex(p)
    \/ \E p \in Procs : Insert(p)
    \/ \E p \in Procs : Push(p)
    \/ \E p \in Procs : MarkCrawled(p)
    \/ \E p \in Procs : Finally(p)
    \/ \E p \in Procs : Signal(p)
    \/ Tick

Spec == Init /\ [][Next]_vars

\* a single coordinator (the second one is never started), richer upstream
InitSolo ==
    /\ now = 0
    /\ lock = NoLock
    /\ dedup = [t \in TweetIds |-> 0]
    /\ queue = <<>>
    /\ tweets_tbl = [t \in TweetIds |-> 0]
    /\ last_crawled_at = [u \in Users |-> -1]
    /\ pc = [p \in Procs |-> IF p = "p1" THEN "loop" ELSE "stopped"]
    /\ running = [p \in Procs |-> p = "p1"]
    /\ cycle_count = [p \in Procs |-> 0]
    /\ lock_value = [p \in Procs |-> NoToken]
    /\ watched_users = [p \in Procs |-> <<>>]
    /\ username = [p \in Procs |-> "alice"]
    /\ latest_tweet_id = [p \in Procs |-> NoId]
    /\ tweets = [p \in Procs |-> <<>>]
    /\ idx = [p \in Procs |-> 1]
    /\ wait_time = [p \in Procs |-> 0]
    /\ wake = [p \in Procs |-> 0]
    /\ granted = [p \in Procs |-> NoGrant]
    /\ cyc_tok = [p \in Procs |-> NoToken]
    /\ rel = [p \in Procs |-> NoRel]
    /\ fetch_ok = [p \in Procs |-> "none"]
    /\ checked = [p \in Procs |-> <<>>]
    /\ inserted = [p \in Procs |-> <<>>]
    /\ pushed = [p \in Procs |-> <<>>]
    /\ insert_calls = [t \in TweetIds |-> 0]
    /\ exhausted = [p \in Procs |-> {}]
    /\ world = TweetIds
    /\ is_active = [u \in Users |-> u # "carol"]
    /\ fetched = [p \in Procs |-> NoFetch]
    /\ processing_status = [t \in TweetIds |-> "none"]
    /\ processed_tweets = [t \in TweetIds |-> <<>>]
    /\ upserts = [t \in TweetIds |-> 0]
    /\ cascade_runs = [t \in TweetIds |-> 0]
    /\ ollama_enabled = FALSE
    /\ w_pc = "w_stopped"
    /\ w_running = FALSE
    /\ pending_tweets = <<>>
    /\ w_i = 1
    /\ result = NoResult
    /\ w_wait_time = 0
    /\ w_wake = 0
    /\ w_signal_at = -1
    /\ instances_cache = NoCache
    /\ discovery = NoCall
    /\ cyc = [p \in Procs |-> NoCycle]
    /\ request = NoRequest
    /\ enrichment = NoEnrichment

SpecSolo == InitSolo /\ [][Next]_vars

\* the consumer alone: the coordinators have stopped after storing the
\* upstream tweets 1 and 2, which are pending
InitWorker ==
    /\ now = 0
    /\ lock = NoLock
    /\ dedup = [t \in TweetIds |-> 0]
    /\ queue = <<2, 1>>
    /\ tweets_tbl = [t \in TweetIds |-> IF t \in {1, 2} THEN 1 ELSE 0]
    /\ last_crawled_at = [u \in Users |-> IF u = "carol" THEN -1 ELSE 0]
    /\ pc = [p \in Procs |-> "stopped"]
    /\ running = [p \in Procs |-> FALSE]
    /\ cycle_count = [p \in Procs |-> 0]
    /\ lock_value = [p \in Procs |-> NoToken]
    /\ watched_users = [p \in Procs |-> <<>>]
    /\ username = [p \in Procs |-> "alice"]
    /\ latest_tweet_id = [p \in Procs |-> NoId]
    /\ tweets = [p \in Procs |-> <<>>]
    /\ idx = [p \in Procs |-> 1]
    /\ wait_time = [p \in Procs |-> 0]
    /\ wake = [p \in Procs |-> 0]
    /\ granted = [p \in Procs |-> NoGrant]
    /\ cyc_tok = [p \in Procs |-> NoToken]
    /\ rel = [p \in Procs |-> NoRel]
    /\ fetch_ok = [p \in Procs |-> "none"]
    /\ checked = [p \in Procs |-> <<>>]
    /\ inserted = [p \in Procs |-> <<>>]
    /\ pushed = [p \in Procs |-> <<>>]
    /\ insert_calls = [t \in TweetIds |-> IF t \in {1, 2} THEN 1 ELSE 0]
    /\ exhausted = [p \in Procs |-> {}]
    /\ world = {1, 2}
    /\ is_active = [u \in Users |-> u # "carol"]
    /\ fetched = [p \in Procs |-> NoFetch]
    /\ processing_status = [t \in TweetIds |-> IF t \in {1, 2} THEN "pending" ELSE "none"]
    /\ processed_tweets = [t \in TweetIds |-> <<>>]
    /\ upserts = [t \in TweetIds |-> 0]
    /\ cascade_runs = [t \in TweetIds |-> 0]
    /\ ollama_enabled \in BOOLEAN
    /\ w_pc = "w_loop"
    /\ w_running = TRUE
    /\ pending_tweets = <<>>
    /\ w_i = 1
    /\ result = NoResult
    /\ w_wait_time = 0
    /\ w_wake = 0
    /\ w_signal_at = -1
    /\ instances_cache = NoCache
    /\ discovery = NoCall
    /\ cyc = [p \in Procs |-> NoCycle]
    /\ request = NoRequest
    /\ enrichment = NoEnrichment

NextWorker ==
    \/ WLoopHead
    \/ WSleepEmpty
    \/ WItem
    \/ WProcess
    \/ WPersist
    \/ WComplete
    \/ WSleepItem
    \/ WWaitChunk
    \/ WSignal
    \/ Tick

SpecWorker == InitWorker /\ [][NextWorker]_vars

\* get_available_instances(force_refresh): the cached ranking unless forced
\* or absent; otherwise discover_available_instances (one round of requests
\* to the third-party lists, one probe per endpoint to check), and the
\* result is cached when it is not empty
GetAvailableInstances ==
    /\ discovery.calls < MaxCalls
    /\ \E force_refresh \in BOOLEAN, read_ok \in BOOLEAN :
         LET cached == IF force_refresh THEN <<>>
                       ELSE load_from_cache(instances_cache, read_ok)
         IN  IF cached # <<>>
             THEN /\ discovery' = [discovery EXCEPT
                                      !.calls = @ + 1,
                                      !.force_refresh = force_refresh,
                                      !.read_ok = read_ok,
                                      !.returned = cached,
                                      !.probed = FALSE]
                  /\ instances_cache' = instances_cache
             ELSE \E external \in SUBSET ExternalInstances :
                  \E probe \in [KNOWN_INSTANCES \cup external -> {0} \cup ResponseTimes] :
                  \E instances \in Rankings(KNOWN_INSTANCES \cup external, probe) :
                    /\ discovery' =
                          [calls |-> discovery.calls + 1,
                           probes |-> discovery.probes
                                        + Cardinality(KNOWN_INSTANCES \cup external),
                           source_requests |-> discovery.source_requests + 1,
                           force_refresh |-> force_refresh,
                           read_ok |-> read_ok,
                           returned |-> instances,
                           probed |-> TRUE,
                           probe |-> [u \in Urls |->
                                        IF u \in KNOWN_INSTANCES \cup external
                                        THEN probe[u] ELSE -1]]
                    /\ IF instances # <<>>
                       THEN \E write_ok \in BOOLEAN :
                              instances_cache' =
                                  save_to_cache(instances_cache, instances, write_ok, now)
                       ELSE instances_cache' = instances_cache
    /\ UNCHANGED <<now, tweets_tbl, processing_status, wvars, cvars, request, enrichment>>

\* the registry alone: nothing is cached yet
InitRegistry ==
    /\ now = 0
    /\ lock = NoLock
    /\ dedup = [t \in TweetIds |-> 0]
    /\ queue = <<>>
    /\ tweets_tbl = [t \in TweetIds |-> 0]
    /\ last_crawled_at = [u \in Users |-> -1]
    /\ pc = [p \in Procs |-> "stopped"]
    /\ running = [p \in Procs |-> FALSE]
    /\ cycle_count = [p \in Procs |-> 0]
    /\ lock_value = [p \in Procs |-> NoToken]
    /\ watched_users = [p \in Procs |-> <<>>]
    /\ username = [p \in Procs |-> "alice"]
    /\ latest_tweet_id = [p \in Procs |-> NoId]
    /\ tweets = [p \in Procs |-> <<>>]
    /\ idx = [p \in Procs |-> 1]
    /\ wait_time = [p \in Procs |-> 0]
    /\ wake = [p \in Procs |-> 0]
    /\ granted = [p \in Procs |-> NoGrant]
    /\ cyc_tok = [p \in Procs |-> NoToken]
    /\ rel = [p \in Procs |-> NoRel]
    /\ fetch_ok = [p \in Procs |-> "none"]
    /\ checked = [p \in Procs |-> <<>>]
    /\ inserted = [p \in Procs |-> <<>>]
    /\ pushed = [p \in Procs |-> <<>>]
    /\ insert_calls = [t \in TweetIds |-> 0]
    /\ exhausted = [p \in Procs |-> {}]
    /\ world = TweetIds
    /\ is_active = [u \in Users |-> u # "carol"]
    /\ fetched = [p \in Procs |-> NoFetch]
    /\ processing_status = [t \in TweetIds |-> "none"]
    /\ processed_tweets = [t \in TweetIds |-> <<>>]
    /\ upserts = [t \in TweetIds |-> 0]
    /\ cascade_runs = [t \in TweetIds |-> 0]
    /\ ollama_enabled = FALSE
    /\ w_pc = "w_stopped"
    /\ w_running = FALSE
    /\ pending_tweets = <<>>
    /\ w_i = 1
    /\ result = NoResult
    /\ w_wait_time = 0
    /\ w_wake = 0
    /\ w_signal_at = -1
    /\ instances_cache = NoCache
    /\ discovery = NoCall
    /\ cyc = [p \in Procs |-> NoCycle]
    /\ request = NoRequest
    /\ enrichment = NoEnrichment

NextRegistry ==
    \/ GetAvailableInstances
    \/ Tick

SpecRegistry == InitRegistry /\ [][NextRegistry]_vars

\* the two for loops: p1 holds the lease and has selected the due authors
\* alice and bob ("for user in watched_users" of main.py). Either the upstream
\* serves tweets 1..3 and the consumer is not running, or no endpoint serves
\* anything while the consumer works through the batch of the pending tweets
\* 2 and 1 ("for i, tweet in enumerate(pending_tweets, 1)" of
\* process_worker.py)
InitLoops ==
    /\ now = MaxTime - 1
    /\ lock = [value |-> <<"p1", 1>>,
               expireAt |-> MaxTime - 1 + calculate_lock_timeout(2)]
    /\ dedup = [t \in TweetIds |-> 0]
    /\ queue = <<2, 1>>
    /\ tweets_tbl = [t \in TweetIds |-> IF t \in {1, 2} THEN 1 ELSE 0]
    /\ last_crawled_at = [u \in Users |-> IF u = "carol" THEN -1 ELSE 0]
    /\ pc = [p \in Procs |-> IF p = "p1" THEN "user" ELSE "stopped"]
    /\ running = [p \in Procs |-> p = "p1"]
    /\ cycle_count = [p \in Procs |-> IF p = "p1" THEN 1 ELSE 0]
    /\ lock_value = [p \in Procs |-> IF p = "p1" THEN <<"p1", 1>> ELSE NoToken]
    /\ username = [p \in Procs |-> "alice"]
    /\ latest_tweet_id = [p \in Procs |-> NoId]
    /\ tweets = [p \in Procs |-> <<>>]
    /\ idx = [p \in Procs |-> 1]
    /\ wait_time = [p \in Procs |-> 0]
    /\ wake = [p \in Procs |-> 0]
    /\ granted = [p \in Procs |->
                     IF p = "p1"
                     THEN [tok |-> <<"p1", 1>>,
                           exp |-> MaxTime - 1 + calculate_lock_timeout(2)]
                     ELSE NoGrant]
    /\ cyc_tok = [p \in Procs |-> IF p = "p1" THEN <<"p1", 1>> ELSE NoToken]
    /\ rel = [p \in Procs |-> NoRel]
    /\ fetch_ok = [p \in Procs |-> "none"]
    /\ checked = [p \in Procs |-> <<>>]
    /\ inserted = [p \in Procs |-> <<>>]
    /\ pushed = [p \in Procs |-> <<>>]
    /\ insert_calls = [t \in TweetIds |-> IF t \in {1, 2} THEN 1 ELSE 0]
    /\ exhausted = [p \in Procs |-> {}]
    /\ world \in {{}, {1, 2, 3}}
    /\ is_active = [u \in Users |-> u # "carol"]
    /\ fetched = [p \in Procs |-> NoFetch]
    /\ processing_status = [t \in TweetIds |-> IF t \in {1, 2} THEN "pending" ELSE "none"]
    /\ processed_tweets = [t \in TweetIds |-> <<>>]
    /\ upserts = [t \in TweetIds |-> 0]
    /\ cascade_runs = [t \in TweetIds |-> 0]
    /\ ollama_enabled = FALSE
    /\ w_running = (world = {})
    /\ w_pc = IF w_running THEN "w_item" ELSE "w_stopped"
    /\ pending_tweets = IF w_running
                        THEN get_pending_tweets(processing_status, BATCH_LIMIT)
                        ELSE <<>>
    /\ w_i = 1
    /\ result = NoResult
    /\ w_wait_time = 0
    /\ w_wake = 0
    /\ w_signal_at = -1
    /\ instances_cache = NoCache
    /\ discovery = NoCall
    /\ cyc = [p \in Procs |-> NoCycle]
    /\ request = NoRequest
    /\ enrichment = NoEnrichment
    /\ watched_users = [p \in Procs |->
                           IF p = "p1" THEN get_watched_users(last_crawled_at, now)
                                       ELSE <<>>]

\* the steps of the two loop bodies; a loop that has ended stays ended
NextLoops ==
    \/ \E p \in Procs :
          \/ NextUser(p)
          \/ Fetch(p)
          \/ Walk(p)
          \/ Setex(p)
          \/ Insert(p)
          \/ Push(p)
          \/ MarkCrawled(p)
          \/ Signal(p)
    \/ WItem
    \/ WProcess
    \/ WPersist
    \/ WComplete
    \/ WSleepItem
    \/ WSignal
    \/ Tick

SpecLoops == InitLoops /\ [][NextLoops]_vars


\* _request_with_retry(url) is called: the for loop starts with attempt 1, or
\* is skipped when max_retries is below 1
RequestStart ==
    /\ request.pc = "idle"
    /\ request' = IF HTTP_RETRY_COUNT >= 1
                  THEN [request EXCEPT !.pc = "try", !.attempt = 1]
                  ELSE [request EXCEPT !.pc = "done", !.response = "None"]
    /\ UNCHANGED <<now, tweets_tbl, processing_status, wvars, cvars, rvars, enrichment>>

\* one session.get and the branch its outcome selects
RequestAttempt ==
    /\ request.pc = "try"
    /\ \E outcome \in HttpOutcomes :
         LET d == retry_decision(outcome, request.attempt, HTTP_RETRY_COUNT)
             log == Append(request.log, outcome)
         IN  request' =
                 CASE d = "return_response" ->
                        [request EXCEPT !.pc = "done", !.log = log,
                                        !.response = "response"]
                   [] d = "return_none" ->
                        [request EXCEPT !.pc = "done", !.log = log,
                                        !.response = "None"]
                   [] d = "retry" ->
                        [request EXCEPT !.pc = "sleep", !.log = log,
                                        !.sleeps = @ + 1,
                                        !.wake = now + HTTP_RETRY_DELAY]
                   [] OTHER ->
                        \* the next iteration, or "return None" after the loop
                        IF request.attempt < HTTP_RETRY_COUNT
                        THEN [request EXCEPT !.log = log, !.attempt = @ + 1]
                        ELSE [request EXCEPT !.pc = "done", !.log = log,
                                             !.response = "None"]
    /\ UNCHANGED <<now, tweets_tbl, processing_status, wvars, cvars, rvars, enrichment>>

\* time.sleep(settings.HTTP_RETRY_DELAY) has elapsed: continue
RequestWake ==
    /\ request.pc = "sleep"
    /\ now >= request.wake
    /\ request' = [request EXCEPT !.pc = "try", !.attempt = @ + 1, !.wake = 0]
    /\ UNCHANGED <<now, tweets_tbl, processing_status, wvars, cvars, rvars, enrichment>>

\* one request to one endpoint, nothing else runs
InitRequest ==
    /\ now = 0
    /\ lock = NoLock
    /\ dedup = [t \in TweetIds |-> 0]
    /\ queue = <<>>
    /\ tweets_tbl = [t \in TweetIds |-> 0]
    /\ last_crawled_at = [u \in Users |-> -1]
    /\ pc = [p \in Procs |-> "stopped"]
    /\ running = [p \in Procs |-> FALSE]
    /\ cycle_count = [p \in Procs |-> 0]
    /\ lock_value = [p \in Procs |-> NoToken]
    /\ watched_users = [p \in Procs |-> <<>>]
    /\ username = [p \in Procs |-> "alice"]
    /\ latest_tweet_id = [p \in Procs |-> NoId]
    /\ tweets = [p \in Procs |-> <<>>]
    /\ idx = [p \in Procs |-> 1]
    /\ wait_time = [p \in Procs |-> 0]
    /\ wake = [p \in Procs |-> 0]
    /\ granted = [p \in Procs |-> NoGrant]
    /\ cyc_tok = [p \in Procs |-> NoToken]
    /\ rel = [p \in Procs |-> NoRel]
    /\ fetch_ok = [p \in Procs |-> "none"]
    /\ checked = [p \in Procs |-> <<>>]
    /\ inserted = [p \in Procs |-> <<>>]
    /\ pushed = [p \in Procs |-> <<>>]
    /\ insert_calls = [t \in TweetIds |-> 0]
    /\ exhausted = [p \in Procs |-> {}]
    /\ world = TweetIds
    /\ is_active = [u \in Users |-> u # "carol"]
    /\ fetched = [p \in Procs |-> NoFetch]
    /\ processing_status = [t \in TweetIds |-> "none"]
    /\ processed_tweets = [t \in TweetIds |-> <<>>]
    /\ upserts = [t \in TweetIds |-> 0]
    /\ cascade_runs = [t \in TweetIds |-> 0]
    /\ ollama_enabled = FALSE
    /\ w_pc = "w_stopped"
    /\ w_running = FALSE
    /\ pending_tweets = <<>>
    /\ w_i = 1
    /\ result = NoResult
    /\ w_wait_time = 0
    /\ w_wake = 0
    /\ w_signal_at = -1
    /\ instances_cache = NoCache
    /\ discovery = NoCall
    /\ cyc = [p \in Procs |-> NoCycle]
    /\ request = NoRequest
    /\ enrichment = NoEnrichment

NextRequest ==
    \/ RequestStart
    \/ RequestAttempt
    \/ RequestWake
    \/ Tick

SpecRequest == InitRequest /\ [][NextRequest]_vars

\* the sleeps a process that got the signal is still in
SignalledSleep ==
    \/ \E p \in Procs :
          /\ ~running[p]
          /\ pc[p] \in {"wait_skip", "wait_idle", "wait_cycle", "sleep_exc"}
          /\ wake[p] > now
    \/ /\ ~w_running
       /\ w_pc \in {"w_sleep_empty", "w_sleep_item", "w_wait"}
       /\ w_wake > now

\* time goes on after MaxTime for as long as a process that got the signal is
\* in a time.sleep: the sleep returns
LateTick ==
    /\ now >= MaxTime
    /\ SignalledSleep
    /\ now' = now + 1
    /\ lock' = ExpireLock(lock, now + 1)
    /\ dedup' = ExpireDedup(dedup, now + 1)
    /\ instances_cache' = ExpireCache(instances_cache, now + 1)
    /\ UNCHANGED <<processing_status, wvars, discovery, cyc, request, enrichment>>
    /\ UNCHANGED <<queue, tweets_tbl, last_crawled_at, pc, running, cycle_count,
                   lock_value, watched_users, username, latest_tweet_id, tweets,
                   idx, wait_time, wake, granted, cyc_tok, rel, fetch_ok,
                   checked, inserted, pushed, insert_calls, exhausted, world, is_active, fetched>>

\* the steps of coordinator p other than the arrival of the signal
CoordinatorStep(p) ==
    \/ LoopHead(p)
    \/ WaitChunk(p)
    \/ Select(p)
    \/ ReleaseIdle(p)
    \/ SleepExc(p)
    \/ NextUser(p)
    \/ Fetch(p)
    \/ Walk(p)
    \/ Setex(p)
    \/ Insert(p)
    \/ Push(p)
    \/ MarkCrawled(p)
    \/ Finally(p)

\* the steps of the consumer other than the arrival of the signal
ConsumerStep ==
    \/ WLoopHead
    \/ WSleepEmpty
    \/ WItem
    \/ WProcess
    \/ WPersist
    \/ WComplete
    \/ WSleepItem
    \/ WWaitChunk

\* late on the clock, either the two coordinators start on an empty store
\* (bob is the only active author, the upstream has tweet 1), or the consumer
\* starts on a store in which the tweets 1 and 2 are pending
InitShutdown ==
    /\ now = MaxTime - 1
    /\ lock = NoLock
    /\ dedup = [t \in TweetIds |-> 0]
    /\ running \in {[p \in Procs |-> TRUE], [p \in Procs |-> FALSE]}
    /\ w_running = ~running["p1"]
    /\ queue = IF w_running THEN <<2, 1>> ELSE <<>>
    /\ tweets_tbl = [t \in TweetIds |-> IF w_running /\ t \in {1, 2} THEN 1 ELSE 0]
    /\ last_crawled_at = [u \in Users |-> IF w_running /\ u # "carol" THEN 0 ELSE -1]
    /\ pc = [p \in Procs |-> IF running[p] THEN "loop" ELSE "stopped"]
    /\ cycle_count = [p \in Procs |-> 0]
    /\ lock_value = [p \in Procs |-> NoToken]
    /\ watched_users = [p \in Procs |-> <<>>]
    /\ username = [p \in Procs |-> "alice"]
    /\ latest_tweet_id = [p \in Procs |-> NoId]
    /\ tweets = [p \in Procs |-> <<>>]
    /\ idx = [p \in Procs |-> 1]
    /\ wait_time = [p \in Procs |-> 0]
    /\ wake = [p \in Procs |-> 0]
    /\ granted = [p \in Procs |-> NoGrant]
    /\ cyc_tok = [p \in Procs |-> NoToken]
    /\ rel = [p \in Procs |-> NoRel]
    /\ fetch_ok = [p \in Procs |-> "none"]
    /\ checked = [p \in Procs |-> <<>>]
    /\ inserted = [p \in Procs |-> <<>>]
    /\ pushed = [p \in Procs |-> <<>>]
    /\ insert_calls = [t \in TweetIds |-> IF w_running /\ t \in {1, 2} THEN 1 ELSE 0]
    /\ exhausted = [p \in Procs |-> {}]
    /\ world = IF w_running THEN {1, 2} ELSE {1}
    /\ is_active = [u \in Users |-> IF w_running THEN u # "carol" ELSE u = "bob"]
    /\ fetched = [p \in Procs |-> NoFetch]
    /\ processing_status =
           [t \in TweetIds |-> IF w_running /\ t \in {1, 2} THEN "pending" ELSE "none"]
    /\ processed_tweets = [t \in TweetIds |-> <<>>]
    /\ upserts = [t \in TweetIds |-> 0]
    /\ cascade_runs = [t \in TweetIds |-> 0]
    /\ ollama_enabled = FALSE
    /\ w_pc = IF w_running THEN "w_loop" ELSE "w_stopped"
    /\ pending_tweets = <<>>
    /\ w_i = 1
    /\ result = NoResult
    /\ w_wait_time = 0
    /\ w_wake = 0
    /\ w_signal_at = -1
    /\ instances_cache = NoCache
    /\ discovery = NoCall
    /\ cyc = [p \in Procs |-> NoCycle]
    /\ request = NoRequest
    /\ enrichment = NoEnrichment

NextShutdown ==
    \/ \E p \in Procs : CoordinatorStep(p)
    \/ \E p \in Procs : Signal(p)
    \/ ConsumerStep
    \/ WSignal
    \/ Tick
    \/ LateTick

\* a process that is not blocked goes on, and time passes
SpecShutdown ==
    /\ InitShutdown
    /\ [][NextShutdown]_vars
    /\ \A p \in Procs : WF_vars(CoordinatorStep(p))
    /\ WF_vars(ConsumerStep)
    /\ WF_vars(Tick \/ LateTick)

\* ------------------------------------------------------------ claims
CyclePcs == {"select", "release_idle", "user", "fetch", "walk", "setex",
             "insert", "push", "mark_crawled", "wait_cycle", "sleep_exc"}

FetchPcs == {"user", "fetch", "walk", "setex", "insert", "push", "mark_crawled"}

\* processes whose lease is neither released nor expired
LiveGrants == {p \in Procs : granted[p] # NoGrant /\ now < granted[p].exp}

\* the step is p's call of acquire_lock
AcquireStep(p) == pc[p] = "loop" /\ cycle_count'[p] = cycle_count[p] + 1

\* the step is p's call of release_lock
ReleaseStep(p) ==
    /\ pc'[p] # pc[p]
    /\ \/ pc[p] = "release_idle"
       \/ pc[p] = "finally" /\ lock_value[p] # NoToken

\* C1: lease mutual exclusion. At most one granted token is neither released
\* nor expired; an acquire issued while such a token exists returns null, and
\* an acquire issued while none exists returns a token.
C1_LeaseMutualExclusion ==
    /\ [](Cardinality(LiveGrants) <= 1)
    /\ [][\A p \in Procs : AcquireStep(p) =>
             IF LiveGrants # {} THEN lock_value'[p] = NoToken
                                ELSE lock_value'[p] # NoToken]_vars

\* a second caller was refused while the first one holds the lease
C1_Witness ==
    \E p, q \in Procs :
        /\ p # q
        /\ p \in LiveGrants /\ lock.value = granted[p].tok
        /\ pc[q] = "wait_skip" /\ cyc_tok[q] = NoToken

C3_ReleaseSafety ==
    [][\A p \in Procs :
          (ReleaseStep(p) /\ lock.value # lock_value[p]) =>
              /\ lock' = lock
              /\ rel'[p].called /\ rel'[p].ret = FALSE]_vars

\* a coordinator whose lease expired has called release while another
\* process holds the lease, and that lease is still there
C3_Witness ==
    \E p \in Procs :
        /\ rel[p].called /\ ~rel[p].ret
        /\ lock.value # NoToken /\ lock.value[1] # p
        /\ rel[p].tok # lock.value

\* C4: a lease granted at time t with ttl T and not released is stored under
\* its token exactly while now < t + T; afterwards the key is free or belongs
\* to a later caller.
C4_LeaseExpiry ==
    \A p \in Procs :
        granted[p] # NoGrant =>
            (now < granted[p].exp <=> lock.value = granted[p].tok)

\* the ttl of an unreleased lease elapsed and a different caller acquired
C4_Witness ==
    \E p \in Procs :
        /\ granted[p] # NoGrant /\ now >= granted[p].exp
        /\ lock.value # NoToken /\ lock.value[1] # p

\* C5: when a cycle that acquired the lease has ended (the process is about
\* to attempt the next acquire, or has left the loop) release_lock was called
\* with the token of that cycle.
C5_ReleaseOnEveryExit ==
    \A p \in Procs :
        (pc[p] = "loop" /\ cyc_tok[p] # NoToken) =>
            (rel[p].called /\ rel[p].tok = cyc_tok[p])

\* a cycle interrupted by shutdown has released its token
C5_Witness ==
    \E p \in Procs :
        /\ pc[p] = "loop" /\ ~running[p]
        /\ cyc_tok[p] # NoToken /\ rel[p].called /\ rel[p].tok = cyc_tok[p]

Candidates(list, x) ==
    LET pos == {i \in 1..Len(list) : list[i] = x}
    IN  IF pos = {} THEN list
        ELSE SubSeq(list, 1, (CHOOSE i \in pos : \A j \in pos : i <= j) - 1)

IsPrefix(a, b) == Len(a) <= Len(b) /\ a = SubSeq(b, 1, Len(a))

\* C7: the ids passed to the existence cache are a prefix of the candidates
\* (whole list when the cursor is null or absent), all of them once the walk
\* has ended; only candidates are inserted or enqueued.
C7_IncrementalCutoff ==
    \A p \in Procs :
        pc[p] \in {"walk", "setex", "insert", "push", "mark_crawled"} =>
            LET cand == Candidates(tweets[p], latest_tweet_id[p])
            IN  /\ IsPrefix(checked[p], cand)
                /\ pc[p] = "mark_crawled" => checked[p] = cand
                /\ Range(inserted[p]) \subseteq Range(cand)

\* a walk ended at a cursor that is in the list behind a candidate
C7_Witness ==
    \E p \in Procs :
        /\ pc[p] = "mark_crawled"
        /\ \E i \in 2..Len(tweets[p]) :
              /\ tweets[p][i] = latest_tweet_id[p]
              /\ checked[p] = SubSeq(tweets[p], 1, i - 1)

\* the queue entries whose id is in the set, in queue order
QueueOf(S) == SelectSeq(queue, LAMBDA x : x \in S)

IsSubSeqOf(a, b) ==
    \E f \in [1..Len(a) -> 1..Len(b)] :
        /\ \A i \in 1..Len(a) : b[f[i]] = a[i]
        /\ \A i, j \in 1..Len(a) : i < j => f[i] < f[j]

C9_LastCrawledAt ==
    [][\A u \in Users :
          last_crawled_at'[u] # last_crawled_at[u] =>
              /\ last_crawled_at'[u] > last_crawled_at[u]
              /\ \E p \in Procs :
                    /\ pc[p] = "mark_crawled" /\ pc'[p] = "user"
                    /\ username[p] = u
                    /\ fetch_ok[p] = "ok"]_vars

\* one user's time was written after its fetch, the other one's endpoints
\* were exhausted and its time is still null
C9_Witness ==
    \E p \in Procs :
        /\ pc[p] = "user"
        /\ last_crawled_at["alice"] >= 0
        /\ last_crawled_at["bob"] = -1
        /\ "bob" \in exhausted[p]

Processed == w_pc \in {"w_persist", "w_complete"}

\* C12: cascade short-circuit on expiry. With the expiration stage enabled,
\* an item older than the threshold comes out of process_tweet with the lowest
\* tier and filter_source "expired", no call to the filter, the grader or the
\* enrichment was made, the next step is the transition to completed, and the
\* item has no row in processed_tweets.
C12_ExpiredShortCircuit ==
    (Processed /\ ENABLE_24H_EXPIRATION /\ result.aged) =>
        /\ result.grade = LowestTier
        /\ result.filter_source = "expired"
        /\ result.calls = {}
        /\ w_pc = "w_complete"
        /\ processed_tweets[pending_tweets[w_i]] = <<>>

\* the item process_single_tweet is working on
CurrentItem == pending_tweets[w_i]

\* process_single_tweet returns in this step, after process_tweet returned
ItemDone == w_pc \in {"w_persist", "w_complete"} /\ w_pc' \notin {"w_persist", "w_complete"}

Persists == w_pc = "w_persist" /\ w_pc' = "w_complete"

\* the record being persisted equals the stored row in every column the
\* statement takes from the record
SameRecord(row, res) ==
    /\ row.grade = res.grade
    /\ row.summary = res.summary
    /\ row.embedding = res.embedding

\* C14 as stated: at most one row per item id in processed_tweets; persisting
\* a result for an id that has a row replaces the row's fields and adds no
\* row; persisting the same record a second time leaves the table as it was.
C14_UpsertIdempotent ==
    [][/\ \A t \in TweetIds : Len(processed_tweets'[t]) <= 1
       /\ Persists =>
             /\ Len(processed_tweets'[CurrentItem]) = 1
             /\ SameRecord(processed_tweets'[CurrentItem][1], result)
             /\ (/\ processed_tweets[CurrentItem] # <<>>
                 /\ SameRecord(processed_tweets[CurrentItem][1], result)) =>
                    processed_tweets' = processed_tweets]_vars

\* C14 amended: at most one row per item id; persisting a result for an id
\* that has a row replaces the row's fields and adds no row; persisting the
\* same record a second time changes nothing but the row's updated_at, which
\* becomes the time of the second write.
C14_UpsertReplaces ==
    [][/\ \A t \in TweetIds : Len(processed_tweets'[t]) <= 1
       /\ Persists =>
             /\ Len(processed_tweets'[CurrentItem]) = 1
             /\ SameRecord(processed_tweets'[CurrentItem][1], result)
             /\ processed_tweets'[CurrentItem][1].updated_at = now
             /\ \A t \in TweetIds \ {CurrentItem} :
                    processed_tweets'[t] = processed_tweets[t]]_vars

\* the same record was persisted twice for an item, at two different times
C14_Witness ==
    \E t \in TweetIds :
        /\ upserts[t] = 2
        /\ Len(processed_tweets[t]) = 1
        /\ processed_tweets[t][1].updated_at > 0
        /\ w_pc = "w_complete" /\ CurrentItem = t
        /\ SameRecord(processed_tweets[t][1], result)

\* the transitions of tweets.processing_status the state machine allows
\* ("none" -> "pending" is the creation of the row by the coordinator)
StatusEdges ==
    {<<"none", "pending">>, <<"pending", "processing">>,
     <<"processing", "completed">>, <<"processing", "failed">>,
     <<"processing", "skipped">>}

\* C15: item state machine. An item's state changes only along
\* pending -> processing -> {completed, failed, skipped}: no step moves an
\* item out of a terminal state or back to pending, and every item of a batch
\* the consumer selects is pending.
C15_ItemStateMachine ==
    [][/\ \A t \in TweetIds :
             processing_status'[t] # processing_status[t] =>
                 <<processing_status[t], processing_status'[t]>> \in StatusEdges
       /\ (w_pc = "w_loop" /\ w_pc' = "w_item") =>
             \A i \in 1..Len(pending_tweets') :
                 processing_status[pending_tweets'[i]] = "pending"]_vars

\* C18: the relevance filter fails open. When the filter call fails while an
\* item is classified, the item goes on to the grading stage: the grader is
\* called and the tier is the one the grader's answer yields, the item is not
\* given the lowest tier as "filtered", and its processing goes on to the
\* persist or complete step.
C18_FilterFailsOpen ==
    (Processed /\ result.filter = "error") =>
        /\ "grader" \in result.calls
        /\ result.filter_source = "remote_llm"
        /\ result.grade =
               grade_tweet([err |-> result.grader_failed, labels |-> result.labels])
        /\ w_pc = "w_persist" => result.grade \in {"P0", "P1", "P2"}

\* the filter failed and the grader put the item in the top tier
C18_Witness ==
    /\ Processed
    /\ ollama_enabled
    /\ result.filter = "error"
    /\ result.grade = "P0"
    /\ "grader" \in result.calls

\* the labels of the tier set
ValidLabels == {Tiers[i] : i \in 1..Len(Tiers)}

CrawlPcs == {"fetch", "walk", "setex", "insert", "push", "mark_crawled"}

\* process_single_tweet for one item
ItemPcs == {"w_process", "w_persist", "w_complete"}

\* C16: failure isolation. However the work on one author ends (exhausted
\* endpoints, a failed statement), the coordinator is back at the head of its
\* for loop with the remaining authors untouched, and unless shutdown was
\* requested it goes on with the first of them; however the work on one item
\* ends (an exception, a failed write), the consumer keeps its batch and,
\* unless shutdown was requested, goes on with the next item.
C16_FailureIsolation ==
    [][/\ \A p \in Procs :
             /\ (pc[p] \in CrawlPcs /\ pc'[p] \notin CrawlPcs) =>
                    /\ pc'[p] = "user"
                    /\ watched_users'[p] = watched_users[p]
                    /\ running'[p] = running[p]
             /\ (pc[p] = "user" /\ pc'[p] # "user"
                    /\ running[p] /\ watched_users[p] # <<>>) =>
                    /\ pc'[p] = "fetch"
                    /\ username'[p] = Head(watched_users[p])
                    /\ watched_users'[p] = Tail(watched_users[p])
       /\ (w_pc \in ItemPcs /\ w_pc' \notin ItemPcs) =>
             /\ pending_tweets' = pending_tweets
             /\ w_running' = w_running
             /\ IF w_i < Len(pending_tweets) /\ w_running
                THEN w_pc' = "w_sleep_item" /\ w_i' = w_i
                ELSE w_pc' = "w_item" /\ w_i' = w_i + 1
       /\ (w_pc = "w_sleep_item" /\ w_pc' # "w_sleep_item") =>
             /\ pending_tweets' = pending_tweets
             /\ w_pc' = "w_item" /\ w_i' = w_i + 1
       /\ (w_pc = "w_item" /\ w_pc' # "w_item"
              /\ w_running /\ w_i <= Len(pending_tweets)) =>
             /\ pending_tweets' = pending_tweets
             /\ w_pc' = "w_process" /\ w_i' = w_i]_vars

\* the fetch of the cycle's first author found no endpoint and the second
\* author is being fetched; the batch's first item failed and the second is
\* being processed
C16_Witness ==
    /\ \E p \in Procs :
          /\ pc[p] = "fetch"
          /\ fetch_ok[p] = "exhausted"
          /\ username[p] \notin exhausted[p]
    /\ w_pc = "w_process"
    /\ w_i = 2
    /\ processing_status[pending_tweets[1]] = "failed"

\* C17: bounded shutdown latency. Once the shutdown signal is set, the sleep
\* a coordinator or the consumer is in ends at most one 1-second chunk later,
\* in every wait period.
C17_BoundedShutdownLatency ==
    /\ \A p \in Procs :
          (~running[p] /\ pc[p] \in {"wait_skip", "wait_idle", "wait_cycle", "sleep_exc"}) =>
              wake[p] - now <= 1
    /\ (~w_running /\ w_pc \in {"w_sleep_empty", "w_sleep_item", "w_wait"}) =>
          w_wake - now <= 1

\* the step is a call of get_available_instances
RefreshStep == discovery'.calls = discovery.calls + 1

RefusedStep(p) == AcquireStep(p) /\ lock_value'[p] = NoToken

\* the step is one of p's steps inside the wait of a skipped cycle
SkipWaitStep(p) ==
    /\ pc[p] = "wait_skip"
    /\ pc'[p] # pc[p] \/ wait_time'[p] # wait_time[p] \/ wake'[p] # wake[p]

\* C21: lease contention skips the cycle. The acquire that returns null and
\* every step of the wait that follows select no author, start no fetch, leave
\* the tweet store, the existence cache, the queue, every last_crawled_at and
\* the lock key as they are and call no release; the wait is CRAWL_INTERVAL
\* long, and the next acquire is issued only when that time has passed.
C21_LeaseContentionSkips ==
    [][\A p \in Procs :
          /\ RefusedStep(p) =>
                /\ pc'[p] = "wait_skip"
                /\ wait_time'[p] = CRAWL_INTERVAL
          /\ (RefusedStep(p) \/ SkipWaitStep(p)) =>
                /\ pc'[p] \in {"wait_skip", "loop"}
                /\ UNCHANGED <<tweets_tbl, dedup, queue, last_crawled_at, lock>>
                /\ ~rel'[p].called
                /\ watched_users'[p] = <<>>
                /\ cyc'[p].selected = <<>> /\ cyc'[p].visited = <<>>
                /\ cyc'[p].marked = {}
                /\ fetch_ok'[p] = "none"
          /\ (AcquireStep(p) /\ cyc[p].skipped_at >= 0) =>
                now >= cyc[p].skipped_at + CRAWL_INTERVAL]_vars

\* a coordinator whose acquire was refused has waited CRAWL_INTERVAL and is
\* about to try again, while the other one still holds the lease
C21_Witness ==
    \E p \in Procs :
        /\ pc[p] = "loop" /\ running[p]
        /\ cyc[p].skipped_at >= 0
        /\ now >= cyc[p].skipped_at + CRAWL_INTERVAL
        /\ ~rel[p].called
        /\ lock.value # NoToken /\ lock.value[1] # p

\* authors that get_watched_users would return now
DueAuthors == {u \in Users : Due(u, last_crawled_at, now)}

Transient == {"timeout", "connection_error", "http_5xx"}

\* C23: bounded retry. One call of _request_with_retry makes at most
\* HTTP_RETRY_COUNT HTTP attempts; an attempt that ends in a timeout, a
\* connection error or a 5xx answer is followed by a delay and another attempt
\* as long as the bound is not reached, and the call fails when it is; a 4xx
\* answer ends the call with failure at once, no attempt follows it; only a
\* good answer makes the call succeed.
C23_BoundedRetry ==
    LET log == request.log
        n == Len(request.log)
    IN  /\ n <= HTTP_RETRY_COUNT
        /\ request.attempt <= HTTP_RETRY_COUNT
        /\ \A i \in 1..(n - 1) : log[i] \notin {"ok", "http_4xx"}
        /\ (n >= 1 /\ log[n] \in {"ok", "http_4xx"}) => request.pc = "done"
        /\ (n >= 1 /\ log[n] \in Transient /\ n < HTTP_RETRY_COUNT) =>
               request.pc \in {"sleep", "try"}
        /\ request.pc = "sleep" => request.sleeps = n /\ request.wake > 0
        /\ request.pc = "try" => request.sleeps = n /\ request.attempt = n + 1
        /\ request.pc = "done" =>
               /\ n >= 1
               /\ request.sleeps = n - 1
               /\ request.response = IF log[n] = "ok" THEN "response" ELSE "None"
               /\ log[n] \in Transient => n = HTTP_RETRY_COUNT

\* a timeout and a connection error were retried, the 5xx answer of the last
\* allowed attempt ended the call with failure, two delays later
C23_Witness ==
    /\ request.pc = "done"
    /\ request.log = <<"timeout", "connection_error", "http_5xx">>
    /\ request.response = "None"
    /\ request.sleeps = 2
    /\ now >= 2 * HTTP_RETRY_DELAY

\* the step is p's call of get_watched_users and the query succeeds
SelectStep(p) == pc[p] = "select" /\ pc'[p] \in {"user", "release_idle"}

\* the authors selected are the active ones never crawled or crawled more than
\* CRAWL_USER_INTERVAL ago, each once, by descending priority
SelectionOk(p) ==
    LET sel == cyc'[p].selected
    IN  /\ Range(sel) = {u \in Users :
                            /\ is_active[u]
                            /\ \/ last_crawled_at[u] = -1
                               \/ now - last_crawled_at[u] > CRAWL_USER_INTERVAL}
        /\ \A i, j \in 1..Len(sel) : i < j => sel[i] # sel[j]
        /\ \A i, j \in 1..Len(sel) : i < j => priority[sel[i]] >= priority[sel[j]]

\* crawl_user is called for the next author of the selection, and only when
\* the work on the one before has ended
OneAtATime(p) ==
    cyc'[p].visited # cyc[p].visited =>
        \/ cyc'[p].visited = <<>>
        \/ /\ pc[p] = "user" /\ pc'[p] = "fetch"
           /\ Len(cyc[p].visited) < Len(cyc[p].selected)
           /\ cyc'[p].visited =
                  Append(cyc[p].visited, cyc[p].selected[Len(cyc[p].visited) + 1])
           /\ username'[p] = cyc[p].selected[Len(cyc[p].visited) + 1]

\* the cycle body of p has ended after a successful selection
CycleOver(p) ==
    \/ pc[p] = "wait_cycle"
    \/ pc[p] = "finally" /\ cyc[p].selected # <<>>

\* C24 as stated: author selection and order. In each active cycle the
\* coordinator fetches exactly the authors that are active and due at
\* selection time, one at a time, in priority-descending order.
C24_AuthorSelection ==
    /\ [][\A p \in Procs : /\ SelectStep(p) => SelectionOk(p)
                           /\ OneAtATime(p)]_vars
    /\ [](\A p \in Procs : CycleOver(p) => cyc[p].visited = cyc[p].selected)

\* C24 amended: the authors fetched in a cycle are, one at a time and in
\* priority-descending order, the first ones of the selection of active and due
\* authors: all of them when the cycle ends with the process still running,
\* those up to the one in progress when the shutdown signal arrived.
C24_AuthorSelectionUntilShutdown ==
    /\ [][\A p \in Procs : /\ SelectStep(p) => SelectionOk(p)
                           /\ OneAtATime(p)]_vars
    /\ [](\A p \in Procs :
             /\ IsPrefix(cyc[p].visited, cyc[p].selected)
             /\ cyc[p].selected = cyc[p].visited \o watched_users[p]
             /\ CycleOver(p) =>
                   \/ cyc[p].visited = cyc[p].selected
                   \/ ~running[p])

\* a cycle in which alice and bob were due (carol is not active) has fetched
\* alice, then bob, and has reached the wait between cycles
C24_Witness ==
    \E p \in Procs :
        /\ pc[p] = "wait_cycle"
        /\ cyc[p].selected = <<"alice", "bob">>
        /\ cyc[p].visited = <<"alice", "bob">>
        /\ priority["alice"] > priority["bob"]
        /\ ~is_active["carol"]

C26_LeaseHeldOnlyWhileActive ==
    \A p \in Procs :
        pc[p] \in {"wait_cycle", "sleep_exc", "wait_idle", "wait_skip"} =>
            /\ cyc_tok[p] # NoToken => rel[p].called /\ rel[p].tok = cyc_tok[p]
            /\ lock.value = NoToken \/ lock.value # cyc_tok[p]

\* p has found id t absent from the existence cache and has not yet finished
\* the mark, the insert and the push for it
InDedupSection(p, t) ==
    /\ pc[p] \in {"setex", "insert", "push"}
    /\ tweets[p][idx[p]] = t

\* p and q have both marked t in their current crawl_user and are both done
\* with it
RaceOver(p, q, t) ==
    /\ p # q
    /\ t \in cyc[p].marked /\ t \in cyc[q].marked
    /\ ~InDedupSection(p, t) /\ ~InDedupSection(q, t)

C28_NoMarkWithoutRow ==
    \A p \in Procs :
        pc[p] = "mark_crawled" =>
            /\ \A t \in cyc[p].marked :
                   dedup_exists(dedup, t) => tweets_tbl[t] >= 1
            /\ \A t \in cyc[p].failed :
                   tweets_tbl[t] = 0 => ~dedup_exists(dedup, t)

\* C29: no candidate is lost to the cursor. Every id that appeared ahead of
\* the cursor in a fetched list gets stored, also when an earlier INSERT of it
\* had failed after a newer item of the list had been stored: the cursor never
\* cuts a walk off ahead of an earlier candidate that has no row. When a fetch
\* returns such an id again and its walk ends without a failing INSERT, every
\* such id the walk did not reach has a row in the item store.
C29_NoCandidateLostToCursor ==
    \A p \in Procs :
        (pc[p] = "mark_crawled" /\ cyc[p].failed = {}) =>
            \A t \in cyc[p].seen \cap Range(tweets[p]) :
                t \notin Range(checked[p]) => tweets_tbl[t] >= 1

\* C30: the queue is consumed. The classification consumer removes from the
\* classification queue every id it takes up: an id whose processing the
\* consumer has ended (state completed, failed or skipped) is no longer on
\* the queue, so the queue does not grow while the consumer runs.
C30_QueueConsumed ==
    \A t \in TweetIds :
        processing_status[t] \in {"completed", "failed", "skipped"} =>
            Count(queue, t) = 0

\* the consumer is inside process_single_tweet for item t
InSingleTweet(t) ==
    /\ w_pc \in {"w_process", "w_persist", "w_complete"}
    /\ w_i <= Len(pending_tweets)
    /\ pending_tweets[w_i] = t

\* C31: no item is stuck in processing. Every item the consumer moved to
\* processing reaches completed, failed or skipped: once process_single_tweet
\* has returned for the item (the only code that updates its state, since a
\* batch selects pending items only), the item is no longer in processing,
\* also when a state update failed or shutdown was requested meanwhile.
C31_NoItemStuckInProcessing ==
    \A t \in TweetIds :
        processing_status[t] = "processing" => InSingleTweet(t)

\* C32: single-consumer at-most-once. With one consumer process running, no
\* item is run through the classification cascade more than once, over any
\* number of batches.
C32_SingleConsumerAtMostOnce ==
    \A t \in TweetIds : cascade_runs[t] <= 1

\* ------------------------------------------- the consumer under a steady
\* inflow of newer tweets. Tweet 1 is the oldest pending row; the ids above it
\* stand for the stream of tweets published after it: once the consumer has
\* ended the processing of such an id, the id stands for the next tweet of the
\* stream. The clock has reached MaxTime and a time.sleep elapses by its
\* deadline coming nearer.

\* crawl_user stores a tweet published after tweet 1: insert_tweet gives the
\* row the state pending, push_to_queue appends its id
InsertNewer ==
    /\ \E t \in TweetIds \ {1} :
         /\ processing_status[t] \in {"none", "completed", "failed", "skipped"}
         /\ tweets_tbl' = [tweets_tbl EXCEPT ![t] = 1]
         /\ processing_status' = [processing_status EXCEPT ![t] = "pending"]
         /\ processed_tweets' = [processed_tweets EXCEPT ![t] = <<>>]
         /\ upserts' = [upserts EXCEPT ![t] = 0]
         /\ cascade_runs' = [cascade_runs EXCEPT ![t] = 0]
         /\ queue' = IF Count(queue, t) = 0 THEN push_to_queue(queue, t) ELSE queue
    /\ UNCHANGED <<now, lock, dedup, last_crawled_at, pc, running, cycle_count,
                   lock_value, watched_users, username, latest_tweet_id, tweets,
                   idx, wait_time, wake, granted, cyc_tok, rel, fetch_ok, checked,
                   inserted, pushed, insert_calls, exhausted, world, is_active,
                   fetched, cyc>>
    /\ UNCHANGED <<ollama_enabled, w_pc, w_running, pending_tweets, w_i, result,
                   w_wait_time, w_wake, w_signal_at, rvars, request, enrichment>>

\* one second of a time.sleep of the consumer goes by
SleepTick ==
    /\ now >= MaxTime
    /\ w_pc \in {"w_sleep_empty", "w_sleep_item", "w_wait"}
    /\ w_wake > now
    /\ w_wake' = w_wake - 1
    /\ UNCHANGED <<now, tweets_tbl, processing_status, processed_tweets, upserts,
                   cascade_runs, ollama_enabled, w_pc, w_running, pending_tweets,
                   w_i, result, w_wait_time, w_signal_at, cvars, rvars, request, enrichment>>

\* the store answers every call of this step: the SELECT of the batch returns
\* the pending rows and every UPDATE of the processing state is applied
StoreUp ==
    /\ (w_pc = "w_loop" /\ w_pc' = "w_sleep_empty") =>
           get_pending_tweets(processing_status, BATCH_LIMIT) = <<>>
    /\ (w_pc = "w_item" /\ w_pc' = "w_process") =>
           processing_status'[pending_tweets[w_i]] = "processing"
    /\ (w_pc \in {"w_process", "w_persist", "w_complete"}
           /\ w_pc' \in {"w_sleep_item", "w_item"}) =>
           processing_status'[pending_tweets[w_i]] \in {"completed", "failed"}

\* a step of the consumer with the store up
ConsumerStepStoreUp == ConsumerStep /\ StoreUp

InitStarve ==
    /\ now = MaxTime
    /\ lock = NoLock
    /\ dedup = [t \in TweetIds |-> 0]
    /\ queue = <<1>>
    /\ tweets_tbl = [t \in TweetIds |-> IF t = 1 THEN 1 ELSE 0]
    /\ last_crawled_at = [u \in Users |-> IF u = "carol" THEN -1 ELSE 0]
    /\ pc = [p \in Procs |-> "stopped"]
    /\ running = [p \in Procs |-> FALSE]
    /\ cycle_count = [p \in Procs |-> 0]
    /\ lock_value = [p \in Procs |-> NoToken]
    /\ watched_users = [p \in Procs |-> <<>>]
    /\ username = [p \in Procs |-> "alice"]
    /\ latest_tweet_id = [p \in Procs |-> NoId]
    /\ tweets = [p \in Procs |-> <<>>]
    /\ idx = [p \in Procs |-> 1]
    /\ wait_time = [p \in Procs |-> 0]
    /\ wake = [p \in Procs |-> 0]
    /\ granted = [p \in Procs |-> NoGrant]
    /\ cyc_tok = [p \in Procs |-> NoToken]
    /\ rel = [p \in Procs |-> NoRel]
    /\ fetch_ok = [p \in Procs |-> "none"]
    /\ checked = [p \in Procs |-> <<>>]
    /\ inserted = [p \in Procs |-> <<>>]
    /\ pushed = [p \in Procs |-> <<>>]
    /\ insert_calls = [t \in TweetIds |-> IF t = 1 THEN 1 ELSE 0]
    /\ exhausted = [p \in Procs |-> {}]
    /\ world = TweetIds
    /\ is_active = [u \in Users |-> u # "carol"]
    /\ fetched = [p \in Procs |-> NoFetch]
    /\ processing_status = [t \in TweetIds |-> IF t = 1 THEN "pending" ELSE "none"]
    /\ processed_tweets = [t \in TweetIds |-> <<>>]
    /\ upserts = [t \in TweetIds |-> 0]
    /\ cascade_runs = [t \in TweetIds |-> 0]
    /\ ollama_enabled = FALSE
    /\ w_pc = "w_loop"
    /\ w_running = TRUE
    /\ pending_tweets = <<>>
    /\ w_i = 1
    /\ result = NoResult
    /\ w_wait_time = 0
    /\ w_wake = 0
    /\ w_signal_at = -1
    /\ instances_cache = NoCache
    /\ discovery = NoCall
    /\ cyc = [p \in Procs |-> NoCycle]
    /\ request = NoRequest
    /\ enrichment = NoEnrichment

NextStarve ==
    \/ ConsumerStepStoreUp
    \/ InsertNewer
    \/ SleepTick

\* the consumer runs without a signal and is scheduled for ever, time goes on
SpecStarve ==
    /\ InitStarve /\ [][NextStarve]_vars
    /\ WF_vars(ConsumerStepStoreUp)
    /\ WF_vars(SleepTick)

\* C33: no starvation of pending items. Every item in state pending is
\* eventually selected into a batch and processed by a continuously running
\* consumer, even while the coordinator keeps inserting newer items.
C33_NoStarvation ==
    \A t \in TweetIds :
        (processing_status[t] = "pending") ~> (processing_status[t] # "pending")

\* C34: failed only on grading error. The consumer moves an item to failed
\* only in the step in which the cascade raised; an item that has received a
\* tier (process_tweet returned a result for it) is never moved to failed,
\* whether or not its enrichment, embedding or result persistence succeeded.
C34_FailedOnlyOnGradingError ==
    [][\A t \in TweetIds :
          (processing_status'[t] = "failed" /\ processing_status[t] # "failed") =>
              /\ w_pc = "w_process"
              /\ result = NoResult]_vars

\* the cascade's result for the current item says the enabled relevance
\* filter judged it irrelevant
JudgedIrrelevant(res) == res.filter = "no"

\* C35: irrelevant items short-circuit. When the enabled relevance filter
\* judges an item irrelevant, the item gets the lowest tier and the filter
\* source of a filtered item, neither the grader, the enrichment call nor the
\* embedding call is invoked for it, and the item's processing ends with the
\* item in state completed.
C35_IrrelevantShortCircuit ==
    [][/\ (w_pc = "w_process" /\ JudgedIrrelevant(result')) =>
             /\ ollama_enabled
             /\ result'.grade = LowestTier
             /\ result'.filter_source = "ollama_filtered"
             /\ result'.calls \cap {"grader", "enrich", "embed"} = {}
             /\ w_pc' = "w_complete"
       /\ (w_pc = "w_complete" /\ JudgedIrrelevant(result)) =>
             processing_status'[CurrentItem] = "completed"]_vars

\* the enrichment call was made for the item and produced no summary
EnrichmentFailed(res) == "enrich" \in res.calls /\ ~res.summary

\* C36: enrichment failure keeps the tier. For an item whose tier is in the
\* enrichment set, when the enrichment answer cannot be parsed (or the call
\* fails) the tier stays the one the grader assigned, summary and embedding
\* stay null, no embedding call is made, and the item is still persisted (its
\* result row is written) and ends in state completed.
C36_EnrichmentFailureKeepsTier ==
    [][/\ (w_pc = "w_process" /\ EnrichmentFailed(result')) =>
             /\ result'.grade \in EnrichmentSet
             /\ result'.grade =
                    grade_tweet([err |-> result'.grader_failed, labels |-> result'.labels])
             /\ ~result'.embedding
             /\ "embed" \notin result'.calls
             /\ w_pc' = "w_persist"
       /\ (w_pc = "w_persist" /\ EnrichmentFailed(result)) =>
             processed_tweets'[CurrentItem] = <<ResultRow(result, now)>>
       /\ (w_pc = "w_complete" /\ EnrichmentFailed(result)) =>
             processing_status'[CurrentItem] = "completed"]_vars

\* the embedding call was made for the item and returned no vector
EmbeddingFailed(res) == "embed" \in res.calls /\ ~res.embedding

\* C37: the embedding depends on the summary. The embedder is called only for
\* an item for which a summary was produced, so a result (returned or stored)
\* with an embedding has a summary; when the embedding computation fails the
\* embedding is null and the item is still completed with its tier and its
\* summary: its result row is written with both and it ends in state completed.
C37_EmbeddingDependsOnSummary ==
    [][/\ \A t \in TweetIds :
             processed_tweets[t] # <<>> =>
                 (processed_tweets[t][1].embedding => processed_tweets[t][1].summary)
       /\ (w_pc = "w_process" /\ result' # NoResult) =>
             /\ "embed" \in result'.calls => result'.summary
             /\ result'.embedding => (result'.summary /\ "embed" \in result'.calls)
       /\ (w_pc = "w_process" /\ EmbeddingFailed(result')) =>
             /\ result'.grade \in EnrichmentSet
             /\ w_pc' = "w_persist"
       /\ (w_pc = "w_persist" /\ EmbeddingFailed(result)) =>
             /\ processed_tweets'[CurrentItem] # <<>>
             /\ processed_tweets'[CurrentItem][1].grade = result.grade
             /\ processed_tweets'[CurrentItem][1].summary
             /\ ~processed_tweets'[CurrentItem][1].embedding
       /\ (w_pc = "w_complete" /\ EmbeddingFailed(result)) =>
             processing_status'[CurrentItem] = "completed"]_vars

\* -------------------------------- tweet_processor.py (enrichment answer)
\* variant: the length check is missing
truncate_summary_off(summary_cn) == summary_cn

\* if summary_len > 100: result["summary_cn"] = result["summary_cn"][:100]
truncate_summary(summary_cn) ==
    IF Len(summary_cn) > SUMMARY_BUDGET
    THEN SubSeq(summary_cn, 1, SUMMARY_BUDGET)
    ELSE summary_cn

\* process_high_grade_tweet(content, grade) with the answer r of the call:
\* None for a grade outside P0..P2 and from the except branch (no JSON
\* object, a missing field, len() of a null summary)
process_high_grade_tweet_result(grade, r) ==
    IF grade \notin EnrichmentSet THEN NoEnrichResult
    ELSE IF ~r.json THEN NoEnrichResult
    ELSE IF r.summary_field = "missing" \/ ~r.keywords THEN NoEnrichResult
    ELSE IF r.summary_field = "null" THEN NoEnrichResult
    ELSE [ok |-> TRUE,
          summary_cn |-> truncate_summary(r.summary_cn),
          translated_content |->
              IF r.is_chinese \/ r.translated \in {"same", "short"}
              THEN "none" ELSE r.translated]

\* detailed_result = self.process_high_grade_tweet(content, grade);
\* if detailed_result: result["summary_cn"] = detailed_result.get("summary_cn")
ProcessHighGradeTweet ==
    /\ ~enrichment.called
    /\ \E grade \in {Tiers[i] : i \in 1..Len(Tiers)}, r \in EnrichResponses :
         LET detailed_result == process_high_grade_tweet_result(grade, r)
         IN  enrichment' =
                 [called |-> TRUE, grade |-> grade, response |-> r,
                  result |-> detailed_result,
                  result_summary_cn |->
                      IF detailed_result.ok
                      THEN [null |-> FALSE, text |-> detailed_result.summary_cn]
                      ELSE [null |-> TRUE, text |-> <<>>]]
    /\ UNCHANGED <<now, tweets_tbl, processing_status, wvars, cvars, rvars, request>>

\* one enrichment call, nothing else runs
InitEnrich == InitRequest

NextEnrich == ProcessHighGradeTweet

SpecEnrich == InitEnrich /\ [][NextEnrich]_vars

\* C38: summary budget. Every summary the enrichment stage returns, and so
\* every summary handed on to the result record, has at most SUMMARY_BUDGET
\* characters and is the upstream summary cut to its first SUMMARY_BUDGET
\* characters (the upstream summary itself when it is within the budget).
C38_SummaryBudget ==
    (enrichment.called /\ enrichment.result.ok) =>
        /\ Len(enrichment.result.summary_cn) <= SUMMARY_BUDGET
        /\ enrichment.result.summary_cn =
               Take(enrichment.response.summary_cn, SUMMARY_BUDGET)
        /\ ~enrichment.result_summary_cn.null
        /\ enrichment.result_summary_cn.text = enrichment.result.summary_cn

\* an upstream summary longer than the budget was returned cut to the budget
C38_Witness ==
    /\ enrichment.called
    /\ enrichment.result.ok
    /\ Len(enrichment.response.summary_cn) > SUMMARY_BUDGET
    /\ Len(enrichment.result.summary_cn) = SUMMARY_BUDGET

\* the last call of get_available_instances probed the candidates
ProbingRefresh == discovery.calls > 0 /\ discovery.probed

\* the candidates of the last probing refresh whose probe reported available
ReportedAvailable == {u \in Urls : discovery.probe[u] > 0}

\* C39: registry ranking. The list a probing refresh returns holds exactly the
\* candidates whose probe reported available, each once and with its measured
\* latency, in ascending order of latency; a candidate whose probe errored or
\* timed out is absent, and the other candidates are still probed and ranked.
C39_RegistryRanking ==
    ProbingRefresh =>
        LET returned == discovery.returned
        IN  /\ {returned[i].url : i \in 1..Len(returned)} = ReportedAvailable
            /\ Len(returned) = Cardinality(ReportedAvailable)
            /\ \A i \in 1..Len(returned) :
                   returned[i].response_time = discovery.probe[returned[i].url]
            /\ \A i, j \in 1..Len(returned) :
                   i < j => returned[i].response_time <= returned[j].response_time

\* both candidates were probed: one probe failed, or the slower endpoint is
\* ranked behind the faster one
C39_Witness ==
    /\ ProbingRefresh
    /\ \A u \in Urls : discovery.probe[u] >= 0
    /\ \/ /\ \E u \in Urls : discovery.probe[u] = 0
          /\ Len(discovery.returned) = 1
       \/ /\ Len(discovery.returned) = 2
          /\ discovery.returned[1].response_time < discovery.returned[2].response_time

\* the call of get_available_instances made in this step probed the candidates
ProbingRefreshStep == RefreshStep /\ discovery'.probed

\* C40: the cache reflects the last probe. After a refresh that probes, the
\* cached ranking is the ranking that refresh returned; in particular, when
\* the probe found no available endpoint, no ranking of an earlier probe is
\* left in the cache.
C40_CacheReflectsLastProbe ==
    [][(ProbingRefreshStep /\ discovery'.returned = <<>>) =>
           instances_cache'.value = json_dumps(discovery'.returned)]_vars

====
